---- MODULE Spec2Model ----
(***************************************************************************)
(* Dictionary Matrix: the import pipeline (app/importing/ops.py) and the   *)
(* linking orchestrator (app/linking/ops.py, app/linking/router.py) over   *)
(* the MongoDB collections dicts, entry, import_jobs and linking_jobs.     *)
(*                                                                         *)
(* Database semantics.  get_db_sync (app/db.py) starts a session and a     *)
(* transaction but returns session.client[DATABASE]; no operation in the   *)
(* handlers passes session=..., so PyMongo runs each operation outside the *)
(* transaction: every find/insert/update/delete is one atomic step whose   *)
(* effect is visible to every other process at once, and the transaction   *)
(* that is committed on exit is empty.  A collection is modelled as the    *)
(* sequence of its documents in insertion order.                           *)
(*                                                                         *)
(* Failure model.  Every statement inside a handler's try block may raise  *)
(* (a network or server error, a malformed document, an OSError); the      *)
(* database write made by the except / finally block itself is taken to    *)
(* succeed.  os.remove may raise wherever it is called.                    *)
(***************************************************************************)
EXTENDS Integers, Sequences, FiniteSets, TLC

VARIABLES
    dicts,        \* collection db.dicts
    entry,        \* collection db.entry
    import_jobs,  \* collection db.import_jobs, keyed by job id
    upload,       \* per import job: the entries its file / remote dictionary holds
    fileExists,   \* per import job: the staged (or downloaded) file is on disk
    pc,           \* per import job: position of its handler
    exc,          \* per import job: the exception its handler caught ("" if none)
    obj,          \* per import job: the handler's dict_obj
    nextId,       \* ObjectId generator: ids below nextId have been issued
    linking_jobs, \* collection db.linking_jobs, keyed by job id
    lpc,          \* per linking job: position of process_linking_job
    lv,           \* per linking job: the local variables of process_linking_job
    backend,      \* per linking job: its task at the remote linking service
    executable,   \* settings.LINKING_NAISC_EXECUTABLE is configured
    queue,        \* Task.queue: the job ids waiting for a worker thread
    put,          \* the number of job ids put on the queue so far
    worker,       \* per worker thread of the Task: its position, job id and child
    procs,        \* the child processes started so far, in order of their start
    disk,         \* the temporary files of a linking job that exist
    tf,           \* the linking job's steps that create temporary files
    call,         \* the call of a conversion function in progress: its arguments
    ret           \* what that call has produced so far

importVars == <<dicts, entry, import_jobs, upload, fileExists, pc, exc, obj, nextId>>
linkVars == <<linking_jobs, lpc, lv, backend, executable>>
taskVars == <<queue, put, worker, procs>>
tempVars == <<disk, tf>>
callVars == <<call, ret>>
vars == <<importVars, linkVars, taskVars, tempVars, callVars>>

-----------------------------------------------------------------------------
(* Bounds and input domains *)

MaxEntries == 2

Lemmas == {"cat", "dog"}
PartsOfSpeech == {"noun", "verb"}
ApiKeys == {"k1", "k2"}

\* "j0" is the import that created the dictionary present at the start.
SeedJob == "j0"
NewJobs == {"j1", "j2"}
None == "None"
UnknownDict == "dx"

Headword == [lemma : Lemmas, partOfSpeech : PartsOfSpeech]

RECURSIVE SeqsUpTo(_, _)
SeqsUpTo(S, n) ==
    IF n = 0 THEN {<<>>}
    ELSE LET shorter == SeqsUpTo(S, n - 1)
         IN  shorter \cup {Append(s, x) : s \in {t \in shorter : Len(t) = n - 1}, x \in S}

\* Every file of at most MaxEntries entries.
AllFiles == SeqsUpTo(Headword, MaxEntries)

\* A menu of files for the runs with two concurrent jobs.
cat == [lemma |-> "cat", partOfSpeech |-> "noun"]
dog == [lemma |-> "dog", partOfSpeech |-> "noun"]
FewFiles == {<<cat>>, <<cat, dog>>}

-----------------------------------------------------------------------------
(* Settings (app/settings.py) and enums (app/importing/models.py) *)

UPLOAD_REMOVE_ON_SUCCESS == TRUE
UPLOAD_REMOVE_ON_FAILURE == TRUE

SCHEDULED == "SCHEDULED"
ERROR == "ERROR"
DONE == "DONE"
JobStatus == {SCHEDULED, ERROR, DONE}

E403 == "E403, forbidden"

\* An entry that has no '_id' key yet.
NoId == 0

-----------------------------------------------------------------------------
(* Sequence helpers *)

Range(s) == {s[i] : i \in DOMAIN s}

RECURSIVE SelectSeqBy(_, _)
\* The documents of collection s that are not in the set drop, order kept.
SelectSeqBy(s, drop) ==
    IF s = <<>> THEN <<>>
    ELSE IF Head(s) \in drop THEN SelectSeqBy(Tail(s), drop)
         ELSE <<Head(s)>> \o SelectSeqBy(Tail(s), drop)

\* db.<collection>.find({'_dict_id': d}) in natural (insertion) order.
FindByDict(coll, d) == SelectSeqBy(coll, {e \in Range(coll) : e._dict_id # d})

Ids(coll) == {coll[i]._id : i \in DOMAIN coll}

-----------------------------------------------------------------------------
(* _transfer_ids (app/importing/ops.py) *)

\* entry_counter = defaultdict(int)
NoCounts == [k \in Lemmas \X PartsOfSpeech |-> 0]

RECURSIVE KeysFrom(_, _)
\* entry_to_key applied to the entries in order, entry_counter running along.
KeysFrom(entries, entry_counter) ==
    IF entries = <<>> THEN <<>>
    ELSE LET key == <<Head(entries).lemma, Head(entries).partOfSpeech>>
             n   == entry_counter[key] + 1
         IN  <<<<key[1], key[2], n>>>>
                 \o KeysFrom(Tail(entries), [entry_counter EXCEPT ![key] = n])

RECURSIVE KeysByLemma(_, _)
\* entry_to_key counting the occurrences of the lemma alone.
KeysByLemma(entries, seen) ==
    IF entries = <<>> THEN <<>>
    ELSE LET n == Cardinality({i \in DOMAIN seen : seen[i] = Head(entries).lemma}) + 1
         IN  <<<<Head(entries).lemma, "noun", n>>>>
                 \o KeysByLemma(Tail(entries), Append(seen, Head(entries).lemma))

entry_to_key_lemma(entries) == KeysByLemma(entries, <<>>)

entry_to_key(entries) == KeysFrom(entries, NoCounts)

\* old_id_by_key.get(key): the old entry's id, or NoId for None.
old_id_by_key(old_entries, key) ==
    LET oldKeys == entry_to_key(old_entries)
        hits    == {m \in DOMAIN old_entries : oldKeys[m] = key}
    IN  IF hits = {} THEN NoId
        ELSE old_entries[CHOOSE m \in hits : \A k \in hits : m >= k]._id

\* A transfer that gives every new entry the id of the first old entry of
\* its lemma and part of speech.
transfer_ids_first(new_entries, old_entries) ==
    [i \in DOMAIN new_entries |->
        LET hits == {m \in DOMAIN old_entries :
                        /\ old_entries[m].lemma = new_entries[i].lemma
                        /\ old_entries[m].partOfSpeech = new_entries[i].partOfSpeech}
        IN  IF hits = {} THEN new_entries[i]
            ELSE [new_entries[i] EXCEPT
                     !._id = old_entries[CHOOSE m \in hits : \A k \in hits : m <= k]._id]]

transfer_ids(new_entries, old_entries) ==
    LET newKeys == entry_to_key(new_entries)
    IN  [i \in DOMAIN new_entries |->
            LET id == old_id_by_key(old_entries, newKeys[i])
            IN  IF id # NoId THEN [new_entries[i] EXCEPT !._id = id]
                ELSE new_entries[i]]

-----------------------------------------------------------------------------
(* PyMongo collection operations *)

RECURSIVE AssignIds(_, _)
\* insert_many gives every document without '_id' a new ObjectId before sending.
AssignIds(docs, next) ==
    IF docs = <<>> THEN <<>>
    ELSE IF Head(docs)._id = NoId
         THEN <<[Head(docs) EXCEPT !._id = next]>> \o AssignIds(Tail(docs), next + 1)
         ELSE <<Head(docs)>> \o AssignIds(Tail(docs), next)

NumNew(docs) == Cardinality({i \in DOMAIN docs : docs[i]._id = NoId})

RECURSIVE InsertedPrefix(_, _)
\* An ordered bulk insert stops at the first document whose '_id' is taken:
\* the number of documents of docs that get inserted into coll.
InsertedPrefix(docs, taken) ==
    IF docs = <<>> THEN 0
    ELSE IF Head(docs)._id \in taken THEN 0
         ELSE 1 + InsertedPrefix(Tail(docs), taken \cup {Head(docs)._id})

insert_many(coll, docs) ==
    coll \o SubSeq(docs, 1, InsertedPrefix(docs, Ids(coll)))

-----------------------------------------------------------------------------
(* Import handlers: _process_one_file, _process_one_api *)

Job(j) == import_jobs[j]

\* The remote dictionary service: one dictionary of two entries.
RemoteEndpoint == "http://remote/"
RemoteDict == "r1"
RemoteEntries == <<"o1", "o2">>

\* The id the remote service lists for its i-th entry.
OriginEntryId(i) ==
    IF i \in DOMAIN RemoteEntries THEN RemoteEntries[i] ELSE "o" \o ToString(i)

\* dict_id = override_dict_id or job.id
TargetId(j) == IF Job(j).dict_id # None THEN Job(j).dict_id ELSE j

\* entries parsed from the job's file, none with an '_id' yet
FileEntries(j) ==
    [i \in DOMAIN upload[j] |->
        [_id |-> NoId, _dict_id |-> None, lemma |-> upload[j][i].lemma,
         partOfSpeech |-> upload[j][i].partOfSpeech, src |-> j]]

\* get_one_entry of _process_one_api: the entry converted from the response,
\* entry_obj['_origin_id'] = origin_entry_id
FetchedEntries(j) ==
    [i \in DOMAIN upload[j] |->
        [_id |-> NoId, _dict_id |-> None, lemma |-> upload[j][i].lemma,
         partOfSpeech |-> upload[j][i].partOfSpeech, src |-> j,
         _origin_id |-> OriginEntryId(i)]]

\* raise inside the try block: control passes to the except clause
Raise(j, what) ==
    /\ pc' = [pc EXCEPT ![j] = "except"]
    /\ exc' = [exc EXCEPT ![j] = what]

Goto(j, label) == pc' = [pc EXCEPT ![j] = label]

\* The handler's dict_obj before anything is parsed.
NoObj(j) == [_id |-> j, entries |-> <<>>]

\* The handler returns ("done") or dies of an uncaught exception ("crashed"):
\* its dict_obj is gone with the child process.
Leave(j, label) ==
    /\ pc' = [pc EXCEPT ![j] = label]
    /\ obj' = [obj EXCEPT ![j] = NoObj(j)]

\* A handler that goes on without the assertion on job.state.
LoadUnchecked(j) ==
    /\ pc[j] = "queued"
    /\ IF Job(j).kind = "api" THEN Goto(j, "fetch")
       ELSE IF Job(j).kind = "url" THEN Goto(j, "download")
       ELSE Goto(j, "parse")
    /\ UNCHANGED <<dicts, entry, import_jobs, upload, fileExists, exc, obj, nextId>>

\* The worker hands the job id to the handler; the handler loads the job and
\* asserts it is SCHEDULED (outside the try block).
Load(j) ==
    /\ pc[j] = "queued"
    /\ IF Job(j).state # SCHEDULED THEN Goto(j, "crashed")
       ELSE IF Job(j).kind = "api" THEN Goto(j, "fetch")
       ELSE IF Job(j).kind = "url" THEN Goto(j, "download")
       ELSE Goto(j, "parse")
    /\ UNCHANGED <<dicts, entry, import_jobs, upload, fileExists, exc, obj, nextId>>

\* if job.url and not filename: stream the url into a new file
Download(j) ==
    /\ pc[j] = "download"
    /\ \E fault \in BOOLEAN :
          IF fault
          THEN /\ Raise(j, "download")
               /\ \E written \in BOOLEAN :
                     fileExists' = [fileExists EXCEPT ![j] = written]
          ELSE /\ Goto(j, "parse")
               /\ fileExists' = [fileExists EXCEPT ![j] = TRUE]
               /\ UNCHANGED exc
    /\ UNCHANGED <<dicts, entry, import_jobs, upload, obj, nextId>>

\* obj = file_to_obj(filename, ...); obj.update(job.meta...)
Parse(j) ==
    /\ pc[j] = "parse"
    /\ \E fault \in BOOLEAN :
          IF fault \/ ~fileExists[j]
          THEN Raise(j, "parse") /\ UNCHANGED obj
          ELSE /\ Goto(j, "check")
               /\ obj' = [obj EXCEPT ![j] = [NoObj(j) EXCEPT !.entries = FileEntries(j)]]
               /\ UNCHANGED exc
    /\ UNCHANGED <<dicts, entry, import_jobs, upload, fileExists, nextId>>

\* _process_one_api: about/, list/ and the per-entry requests; dict_obj
\* carries '_origin_id' and '_origin_endpoint' (lines 144-160)
Fetch(j) ==
    /\ pc[j] = "fetch"
    /\ \E fault \in BOOLEAN :
          IF fault
          THEN Raise(j, "fetch") /\ UNCHANGED obj
          ELSE /\ Goto(j, "check")
               /\ obj' = [obj EXCEPT ![j] =
                             [_id |-> j, entries |-> FetchedEntries(j),
                              _origin_id |-> RemoteDict,
                              _origin_endpoint |-> RemoteEndpoint]]
               /\ UNCHANGED exc
    /\ UNCHANGED <<dicts, entry, import_jobs, upload, fileExists, nextId>>

\* db.dicts.find_one({'api_key': job.api_key, '_id': override_dict_id})
OwnedDict(j) ==
    {i \in DOMAIN dicts : dicts[i]._id = Job(j).dict_id /\ dicts[i].api_key = Job(j).api_key}

\* The ownership check looking the dictionary up by '_id' alone.
CheckOwnerAnyKey(j) ==
    /\ pc[j] = "check"
    /\ IF Job(j).dict_id = None
       THEN Goto(j, "delete_entries") /\ UNCHANGED <<exc, obj>>
       ELSE \E fault \in BOOLEAN :
               IF fault THEN Raise(j, "find_one") /\ UNCHANGED obj
               ELSE IF Job(j).dict_id \notin Ids(dicts) THEN Raise(j, E403) /\ UNCHANGED obj
               ELSE /\ Goto(j, "transfer")
                    /\ obj' = [obj EXCEPT ![j]._id = Job(j).dict_id]
                    /\ UNCHANGED exc
    /\ UNCHANGED <<dicts, entry, import_jobs, upload, fileExists, nextId>>

\* _create_or_update_dict, up to the ownership check
CheckOwner(j) ==
    /\ pc[j] = "check"
    /\ IF Job(j).dict_id = None
       THEN Goto(j, "delete_entries") /\ UNCHANGED <<exc, obj>>
       ELSE \E fault \in BOOLEAN :
               IF fault THEN Raise(j, "find_one") /\ UNCHANGED obj
               ELSE IF OwnedDict(j) = {} THEN Raise(j, E403) /\ UNCHANGED obj
               ELSE /\ Goto(j, "transfer")
                    /\ obj' = [obj EXCEPT ![j]._id = Job(j).dict_id]
                    /\ UNCHANGED exc
    /\ UNCHANGED <<dicts, entry, import_jobs, upload, fileExists, nextId>>

\* dict_obj = _transfer_ids(dict_obj, override_dict_id, db)
TransferIds(j) ==
    /\ pc[j] = "transfer"
    /\ \E fault \in BOOLEAN :
          IF fault THEN Raise(j, "find") /\ UNCHANGED obj
          ELSE /\ Goto(j, "delete_entries")
               /\ obj' = [obj EXCEPT ![j].entries =
                             transfer_ids(@, FindByDict(entry, Job(j).dict_id))]
               /\ UNCHANGED exc
    /\ UNCHANGED <<dicts, entry, import_jobs, upload, fileExists, nextId>>

\* The entries tagged with the job's id instead of dict_id.
DeleteEntriesOwnId(j) ==
    /\ pc[j] = "delete_entries"
    /\ \E fault \in BOOLEAN :
          IF obj[j].entries = <<>>
          THEN Raise(j, "No entries in dictionary") /\ UNCHANGED <<obj, entry>>
          ELSE /\ obj' = [obj EXCEPT ![j].entries =
                             [i \in DOMAIN @ |-> [@[i] EXCEPT !._dict_id = j]]]
               /\ IF fault THEN Raise(j, "delete_many") /\ UNCHANGED entry
                  ELSE /\ Goto(j, "delete_dict")
                       /\ entry' = SelectSeqBy(entry,
                                      {e \in Range(entry) : e._dict_id = TargetId(j)})
                       /\ UNCHANGED exc
    /\ UNCHANGED <<dicts, import_jobs, upload, fileExists, nextId>>

\* delete_many with an empty filter: every entry of every dictionary goes.
DeleteEntriesAll(j) ==
    /\ pc[j] = "delete_entries"
    /\ \E fault \in BOOLEAN :
          IF obj[j].entries = <<>>
          THEN Raise(j, "No entries in dictionary") /\ UNCHANGED <<obj, entry>>
          ELSE /\ obj' = [obj EXCEPT ![j].entries =
                             [i \in DOMAIN @ |-> [@[i] EXCEPT !._dict_id = TargetId(j)]]]
               /\ IF fault THEN Raise(j, "delete_many") /\ UNCHANGED entry
                  ELSE /\ Goto(j, "delete_dict")
                       /\ entry' = <<>>
                       /\ UNCHANGED exc
    /\ UNCHANGED <<dicts, import_jobs, upload, fileExists, nextId>>

\* entries = dict_obj.pop('entries'); assert entries; entry['_dict_id'] = dict_id;
\* db.entry.delete_many({'_dict_id': dict_id})
DeleteEntries(j) ==
    /\ pc[j] = "delete_entries"
    /\ \E fault \in BOOLEAN :
          IF obj[j].entries = <<>>
          THEN Raise(j, "No entries in dictionary") /\ UNCHANGED <<obj, entry>>
          ELSE /\ obj' = [obj EXCEPT ![j].entries =
                             [i \in DOMAIN @ |-> [@[i] EXCEPT !._dict_id = TargetId(j)]]]
               /\ IF fault THEN Raise(j, "delete_many") /\ UNCHANGED entry
                  ELSE /\ Goto(j, "delete_dict")
                       /\ entry' = SelectSeqBy(entry,
                                      {e \in Range(entry) : e._dict_id = TargetId(j)})
                       /\ UNCHANGED exc
    /\ UNCHANGED <<dicts, import_jobs, upload, fileExists, nextId>>

\* db.dicts.delete_one({'_id': dict_id})
DeleteDict(j) ==
    /\ pc[j] = "delete_dict"
    /\ \E fault \in BOOLEAN :
          IF fault THEN Raise(j, "delete_one") /\ UNCHANGED dicts
          ELSE /\ Goto(j, "insert_entries")
               /\ dicts' = SelectSeqBy(dicts, {d \in Range(dicts) : d._id = TargetId(j)})
               /\ UNCHANGED exc
    /\ UNCHANGED <<entry, import_jobs, upload, fileExists, obj, nextId>>

\* result = db.entry.insert_many(entries)
InsertEntries(j) ==
    /\ pc[j] = "insert_entries"
    /\ \E fault \in BOOLEAN :
          IF fault THEN Raise(j, "insert_many") /\ UNCHANGED <<entry, obj, nextId>>
          ELSE LET docs == AssignIds(obj[j].entries, nextId)
               IN  /\ entry' = insert_many(entry, docs)
                   /\ nextId' = nextId + NumNew(obj[j].entries)
                   /\ obj' = [obj EXCEPT ![j].entries = docs]
                   /\ IF InsertedPrefix(docs, Ids(entry)) < Len(docs)
                      THEN Raise(j, "DuplicateKeyError")
                      ELSE Goto(j, "insert_dict") /\ UNCHANGED exc
    /\ UNCHANGED <<dicts, import_jobs, upload, fileExists>>

\* dict_obj as db.dicts.insert_one gets it: the entries popped, n_entries and
\* _entries set, the origin fields of an import from a remote service kept.
DictRecord(j) ==
    IF "_origin_id" \in DOMAIN obj[j]
    THEN [_id |-> obj[j]._id, api_key |-> Job(j).api_key,
          n_entries |-> Len(obj[j].entries),
          _entries |-> [i \in DOMAIN obj[j].entries |-> obj[j].entries[i]._id],
          src |-> j,
          _origin_id |-> obj[j]._origin_id,
          _origin_endpoint |-> obj[j]._origin_endpoint]
    ELSE [_id |-> obj[j]._id, api_key |-> Job(j).api_key,
          n_entries |-> Len(obj[j].entries),
          _entries |-> [i \in DOMAIN obj[j].entries |-> obj[j].entries[i]._id],
          src |-> j]

\* dict_obj['_entries'] = result.inserted_ids; db.dicts.insert_one(dict_obj)
InsertDict(j) ==
    /\ pc[j] = "insert_dict"
    /\ \E fault \in BOOLEAN :
          IF fault THEN Raise(j, "insert_one") /\ UNCHANGED dicts
          ELSE IF obj[j]._id \in Ids(dicts)
          THEN Raise(j, "DuplicateKeyError") /\ UNCHANGED dicts
          ELSE /\ dicts' = Append(dicts, DictRecord(j))
               /\ IF obj[j]._id = TargetId(j)
                  THEN Goto(j, "mark_done") /\ UNCHANGED exc
                  ELSE Raise(j, "assert inserted_id")
    /\ UNCHANGED <<entry, import_jobs, upload, fileExists, obj, nextId>>

\* db.import_jobs.update_one({'_id': job_id}, {'$set': {'state': DONE}})
MarkDone(j) ==
    /\ pc[j] = "mark_done"
    /\ \E fault \in BOOLEAN :
          IF fault THEN Raise(j, "update_one") /\ UNCHANGED <<import_jobs, obj>>
          ELSE /\ import_jobs' = [import_jobs EXCEPT ![j].state = DONE]
               /\ IF Job(j).kind # "api" /\ UPLOAD_REMOVE_ON_SUCCESS
                  THEN Goto(j, "remove") /\ UNCHANGED obj
                  ELSE Leave(j, "done")
               /\ UNCHANGED exc
    /\ UNCHANGED <<dicts, entry, upload, fileExists, nextId>>

\* if settings.UPLOAD_REMOVE_ON_SUCCESS: os.remove(filename)   (inside the try block)
RemoveOnSuccess(j) ==
    /\ pc[j] = "remove"
    /\ \E fault \in BOOLEAN :
          IF fault \/ ~fileExists[j]
          THEN Raise(j, "os.remove") /\ UNCHANGED <<fileExists, obj>>
          ELSE /\ Leave(j, "done")
               /\ fileExists' = [fileExists EXCEPT ![j] = FALSE]
               /\ UNCHANGED exc
    /\ UNCHANGED <<dicts, entry, import_jobs, upload, nextId>>

\* The except clause storing the diagnostic but not the state.
HandleExceptionNoState(j) ==
    /\ pc[j] = "except"
    /\ import_jobs' = [import_jobs EXCEPT ![j].error = exc[j]]
    /\ IF Job(j).kind # "api" /\ UPLOAD_REMOVE_ON_FAILURE /\ fileExists[j]
       THEN Goto(j, "cleanup") /\ UNCHANGED obj
       ELSE Leave(j, "done")
    /\ UNCHANGED <<dicts, entry, upload, fileExists, exc, nextId>>

\* except Exception: update_one(... {'state': ERROR, 'error': traceback.format_exc()})
HandleException(j) ==
    /\ pc[j] = "except"
    /\ import_jobs' = [import_jobs EXCEPT ![j].state = ERROR, ![j].error = exc[j]]
    /\ IF Job(j).kind # "api" /\ UPLOAD_REMOVE_ON_FAILURE /\ fileExists[j]
       THEN Goto(j, "cleanup") /\ UNCHANGED obj
       ELSE Leave(j, "done")
    /\ UNCHANGED <<dicts, entry, upload, fileExists, exc, nextId>>

\* if settings.UPLOAD_REMOVE_ON_FAILURE and os.path.isfile(filename): os.remove(filename)
RemoveOnFailure(j) ==
    /\ pc[j] = "cleanup"
    /\ \E fault \in BOOLEAN :
          IF fault THEN Leave(j, "crashed") /\ UNCHANGED fileExists
          ELSE /\ Leave(j, "done")
               /\ fileExists' = [fileExists EXCEPT ![j] = FALSE]
    /\ UNCHANGED <<dicts, entry, import_jobs, upload, exc, nextId>>


-----------------------------------------------------------------------------
(* Initial states and specifications of the import pipeline *)

\* The dictionary that import SeedJob created from file, owned by "k1".
SeedEntries(file) ==
    [i \in DOMAIN file |->
        [_id |-> i, _dict_id |-> SeedJob, lemma |-> file[i].lemma,
         partOfSpeech |-> file[i].partOfSpeech, src |-> SeedJob]]

SeedDict(file) ==
    [_id |-> SeedJob, api_key |-> "k1", n_entries |-> Len(file),
     _entries |-> [i \in DOMAIN file |-> i], src |-> SeedJob]

JobRecord(targets) ==
    [state : {SCHEDULED}, error : {""}, api_key : ApiKeys,
     dict_id : targets, kind : {"file", "url", "api"}]

SeedRecord == [state |-> DONE, error |-> "", api_key |-> "k1", dict_id |-> None,
               kind |-> "file"]

\* State after import SeedJob has ended DONE and the jobs J have been submitted
\* (file_url_import / api_import: the job stored SCHEDULED, its id on the queue).
InitImportWith(files, J, targets) ==
    \E seed \in files \ {<<>>} :
    \E recs \in [J -> JobRecord(targets)] :
    \E ups \in [J -> files] :
        /\ dicts = <<SeedDict(seed)>>
        /\ entry = SeedEntries(seed)
        /\ import_jobs = [j \in J \cup {SeedJob} |-> IF j = SeedJob THEN SeedRecord ELSE recs[j]]
        /\ upload = [j \in J \cup {SeedJob} |-> IF j = SeedJob THEN seed ELSE ups[j]]
        /\ fileExists = [j \in J \cup {SeedJob} |-> j # SeedJob /\ recs[j].kind = "file"]
        /\ pc = [j \in J \cup {SeedJob} |-> IF j = SeedJob THEN "done" ELSE "queued"]
        /\ exc = [j \in J \cup {SeedJob} |-> ""]
        /\ obj = [j \in J \cup {SeedJob} |-> NoObj(j)]
        /\ nextId = Len(seed) + 1

Jobs == DOMAIN pc

NextImport ==
    \/ \E j \in Jobs : Load(j)
    \/ \E j \in Jobs : Download(j)
    \/ \E j \in Jobs : Parse(j)
    \/ \E j \in Jobs : Fetch(j)
    \/ \E j \in Jobs : CheckOwner(j)
    \/ \E j \in Jobs : TransferIds(j)
    \/ \E j \in Jobs : DeleteEntries(j)
    \/ \E j \in Jobs : DeleteDict(j)
    \/ \E j \in Jobs : InsertEntries(j)
    \/ \E j \in Jobs : InsertDict(j)
    \/ \E j \in Jobs : MarkDone(j)
    \/ \E j \in Jobs : RemoveOnSuccess(j)
    \/ \E j \in Jobs : HandleException(j)
    \/ \E j \in Jobs : RemoveOnFailure(j)

\* No linking job has made a temporary file.
NoTempFiles ==
    /\ disk = {}
    /\ tf = <<>>

\* No conversion function has been called.
NoCall ==
    /\ call = <<>>
    /\ ret = <<>>

\* No Task has been started.
NoTasks ==
    /\ queue = <<>>
    /\ put = 0
    /\ worker = <<>>
    /\ procs = <<>>

\* No linking job has been submitted.
NoLinking ==
    /\ linking_jobs = <<>>
    /\ lpc = <<>>
    /\ lv = <<>>
    /\ backend = <<>>
    /\ executable = FALSE
    /\ NoTasks
    /\ NoTempFiles
    /\ NoCall

\* Two import jobs run by two workers at once, files from the menu.
InitImport == InitImportWith(FewFiles, NewJobs, {None, SeedJob}) /\ NoLinking
SpecImport == InitImport /\ [][NextImport /\ UNCHANGED <<linkVars, taskVars, tempVars, callVars>>]_vars

\* One import job over every file of at most MaxEntries entries.
InitReplace == InitImportWith(AllFiles, {"j1"}, {None, SeedJob, UnknownDict}) /\ NoLinking
SpecReplace == InitReplace /\ [][NextImport /\ UNCHANGED <<linkVars, taskVars, tempVars, callVars>>]_vars

\* The records an import job can have in the store: SCHEDULED as submitted,
\* or ERROR as a handler that failed on the file left it (the file removed).
StoredRecord ==
    JobRecord({None, SeedJob})
        \cup [state : {ERROR}, error : {"parse"}, api_key : ApiKeys,
              dict_id : {None, SeedJob}, kind : {"file", "url", "api"}]

\* The handler is invoked with the id of any job of the store: of SeedJob,
\* which has ended DONE, and of a job "j1" that is SCHEDULED or in ERROR.
InitStale ==
    /\ \E seed \in FewFiles : \E rec \in StoredRecord : \E up \in FewFiles :
          /\ dicts = <<SeedDict(seed)>>
          /\ entry = SeedEntries(seed)
          /\ import_jobs = [j \in {SeedJob, "j1"} |-> IF j = SeedJob THEN SeedRecord ELSE rec]
          /\ upload = [j \in {SeedJob, "j1"} |-> IF j = SeedJob THEN seed ELSE up]
          /\ fileExists = [j \in {SeedJob, "j1"} |->
                              j = "j1" /\ rec.kind = "file" /\ rec.state = SCHEDULED]
          /\ pc = [j \in {SeedJob, "j1"} |-> "queued"]
          /\ exc = [j \in {SeedJob, "j1"} |-> ""]
          /\ obj = [j \in {SeedJob, "j1"} |-> NoObj(j)]
          /\ nextId = Len(seed) + 1
    /\ NoLinking

SpecStale == InitStale /\ [][NextImport /\ UNCHANGED <<linkVars, taskVars, tempVars, callVars>>]_vars

-----------------------------------------------------------------------------
(* Linking: app/linking/models.py, app/linking/router.py, app/linking/ops.py *)

\* The longest result list a linking backend returns.
MaxLinks == 2

PROCESSING == "PROCESSING"
COMPLETED == "COMPLETED"
FAILED == "FAILED"

BABELNET_ID == "babelnet"
LINKING_BABELNET_URL == "https://babelnet.io/v5/"
\* The setting of a deployment with a Naisc service (the default is None).
LINKING_NAISC_URL == "http://naisc/"
LocalEndpoint == "http://localhost:8000/linking"

\* A result field of a job document: not set, None, or a list.
Unset == [kind |-> "unset", items |-> <<>>]
Null == [kind |-> "null", items |-> <<>>]
List(items) == [kind |-> "list", items |-> items]

\* LinkingStatus(): the defaults of the model class
DefaultStatus == [state |-> PROCESSING, message |-> "Still working ..."]

LinkJob(l) == linking_jobs[l]

\* str(ObjectId)
Str(id) == ToString(id)

\* POST /linking/status: the job without its results, through
\* response_model=LinkingStatus (an absent field takes the model's default).
status(l) ==
    IF l \notin DOMAIN linking_jobs THEN [code |-> 404, body |-> DefaultStatus]
    ELSE [code |-> 200,
          body |-> [state   |-> IF LinkJob(l).state = "unset" THEN DefaultStatus.state
                                ELSE LinkJob(l).state,
                    message |-> IF LinkJob(l).message = "unset" THEN DefaultStatus.message
                                ELSE LinkJob(l).message]]

\* x or y: x when it is a non-empty list
Or(x, y) == IF x.kind = "list" /\ x.items # <<>> THEN x ELSE y

\* POST /linking/result: job['origin_result'] or job['our_result'];
\* KeyError (a field not set) gives 404.  body is what the handler returns.
result(l) ==
    IF LinkJob(l).origin_result = Unset \/ LinkJob(l).our_result = Unset
    THEN [code |-> 404, body |-> Null]
    ELSE [code |-> 200, body |-> Or(LinkJob(l).origin_result, LinkJob(l).our_result)]

\* The entries stored under dictionary id d, as the ids a backend is given.
EntryIdsOf(d) == {Str(entry[i]._id) : i \in {k \in DOMAIN entry : entry[k]._dict_id = d}}

OneResult(s, t) == [source_entry |-> s, target_entry |-> t, linking |-> <<"exact">>]

\* What _linking_from_naisc_executable may return for source dictionary sd and
\* target td: one record for each linked pair of their entries.
ExecutableResults(sd, td) ==
    LET pairs == {OneResult(a, b) : a \in EntryIdsOf(sd), b \in EntryIdsOf(td)}
    IN  {s \in SeqsUpTo(pairs, MaxLinks) :
            \A i, k \in DOMAIN s : i # k => s[i] # s[k]}

\* The records a remote backend may return for source dictionary sd and
\* target td: over their entries (a synset id for BabelNet), or over an entry
\* that is not there.
Records(sd, td) ==
    {OneResult(a, b) :
        a \in EntryIdsOf(sd) \cup {"nowhere"},
        b \in IF td = BABELNET_ID THEN {"bn:1"} ELSE EntryIdsOf(td)}

\* A record of a remote reply may carry a field LinkingOneResult does not declare.
Annotated(r) == [k \in DOMAIN r \cup {"note"} |-> IF k = "note" THEN <<"n">> ELSE r[k]]

RemoteRecords(sd, td) == Records(sd, td) \cup {Annotated(r) : r \in Records(sd, td)}

\* A reply of the backend's result endpoint whose record lacks target_entry.
Malformed == <<[source_entry |-> "1"]>>

RECURSIVE Validated(_)
\* [LinkingOneResult(**i).dict() for i in response.json()]: the declared
\* fields of every record; ok is FALSE when a record fails validation.
Validated(items) ==
    IF items = <<>> THEN [ok |-> TRUE, items |-> <<>>]
    ELSE IF ~({"source_entry", "target_entry", "linking"} \subseteq DOMAIN Head(items))
         THEN [ok |-> FALSE, items |-> <<>>]
         ELSE LET rest == Validated(Tail(items))
              IN  [ok |-> rest.ok,
                   items |-> <<[source_entry |-> Head(items).source_entry,
                                target_entry |-> Head(items).target_entry,
                                linking      |-> Head(items).linking]>> \o rest.items]

\* The most status requests of one job that are counted.
MaxPolls == 2

\* What the httpx client of one job has sent: the number of submit, status
\* and result requests (status counted up to MaxPolls), the service urls they
\* went to, the task ids that status and result requests carried, and the
\* state of the last status reply.
NoRequests ==
    [submit |-> 0, status |-> 0, result |-> 0, urls |-> {}, ids |-> {}, last |-> None]

\* client.post(urljoin(service_url, kind), ...) carrying the task ids in ids
Post(h, kind, url, ids) ==
    [h EXCEPT ![kind] = IF @ < MaxPolls THEN @ + 1 ELSE @,
              !.urls = @ \cup {url},
              !.ids = @ \cup ids]

\* The local variables at the start of process_linking_job (lines 69-74);
\* exc is the step that raised, if one did, and reads counts the find_one
\* calls of the job-load loop.
InitLocals ==
    [source |-> [id |-> None, endpoint |-> None],
     target |-> [id |-> None, endpoint |-> None],
     service_url |-> None, remote_task_id |-> None,
     our_result |-> Null, origin_result |-> Null,
     new_status |-> [state |-> COMPLETED, message |-> ""],
     origin_source_dict_id |-> None, origin_target_dict_id |-> None,
     result |-> <<>>, exc |-> "",
     http |-> NoRequests, ran_executable |-> FALSE, reads |-> 0]

LGoto(l, label) == lpc' = [lpc EXCEPT ![l] = label]

\* An exception inside the try block: the except clause sets new_status to
\* FAILED with the traceback; the finally clause follows.
LRaiseWith(l, locals, what) ==
    /\ lpc' = [lpc EXCEPT ![l] = "finally"]
    /\ lv' = [lv EXCEPT ![l] = [locals EXCEPT !.exc = what,
                                   !.new_status = [state |-> FAILED, message |-> what]]]

LRaise(l, what) == LRaiseWith(l, lv[l], what)

\* The find_one calls of the job-load loop are counted modulo MaxReads + 1.
MaxReads == 2

\* Get job handle (lines 76-82): one find_one of the loop; a job document that
\* is not there yet leaves the loop where it is, one that is there goes through
\* LinkingJobPrivate(**job).
LoadJob(l) ==
    /\ lpc[l] = "queued"
    /\ \E fault \in BOOLEAN :
          LET read == [lv[l] EXCEPT !.reads = (@ + 1) % (MaxReads + 1)]
          IN  IF fault THEN LRaiseWith(l, read, "find_one")
              ELSE IF l \notin DOMAIN linking_jobs
              THEN /\ lv' = [lv EXCEPT ![l] = read]
                   /\ UNCHANGED lpc
              ELSE /\ LGoto(l, "defaults")
                   /\ lv' = [lv EXCEPT ![l] = [read EXCEPT
                                !.source = LinkJob(l).source,
                                !.target = LinkJob(l).target]]
    /\ UNCHANGED <<importVars, linking_jobs, backend, executable>>

IsBabelnet(l) == lv[l].target.id = BABELNET_ID

HasDict(id) == \E i \in DOMAIN dicts : dicts[i]._id = id

\* Defaults that are set without looking the dictionaries up.
SetDefaultsUnchecked(l) ==
    /\ lpc[l] = "defaults"
    /\ \E fault \in BOOLEAN :
          IF lv[l].source.id = BABELNET_ID THEN LRaise(l, "assert source")
          ELSE LET url    == IF IsBabelnet(l) THEN LINKING_BABELNET_URL ELSE LINKING_NAISC_URL
                   locals == [lv[l] EXCEPT !.service_url = url]
               IN  IF fault THEN LRaiseWith(l, locals, "find_one")
                   ELSE /\ LGoto(l, "mirror_source")
                        /\ lv' = [lv EXCEPT ![l] = locals]
    /\ UNCHANGED <<importVars, linking_jobs, backend, executable>>

\* Set / check defaults (lines 84-96)
SetDefaults(l) ==
    /\ lpc[l] = "defaults"
    /\ \E fault \in BOOLEAN :
          IF lv[l].source.id = BABELNET_ID THEN LRaise(l, "assert source")
          ELSE LET url    == IF IsBabelnet(l) THEN LINKING_BABELNET_URL ELSE LINKING_NAISC_URL
                   locals == [lv[l] EXCEPT !.service_url = url]
               IN  IF fault THEN LRaiseWith(l, locals, "find_one")
                   ELSE IF lv[l].source.endpoint = None /\ ~HasDict(lv[l].source.id)
                   THEN LRaiseWith(l, locals, "Dictionary not found here")
                   ELSE IF lv[l].target.endpoint = None /\ ~IsBabelnet(l)
                           /\ ~HasDict(lv[l].target.id)
                   THEN LRaiseWith(l, locals, "Dictionary not found here")
                   ELSE /\ LGoto(l, "mirror_source")
                        /\ lv' = [lv EXCEPT ![l] = locals]
    /\ UNCHANGED <<importVars, linking_jobs, backend, executable>>

\* db.dicts.find_one({'_origin_id': id, '_origin_endpoint': endpoint})
MirrorsOf(id, endpoint) ==
    {i \in DOMAIN dicts :
        /\ "_origin_id" \in DOMAIN dicts[i]
        /\ dicts[i]._origin_id = id
        /\ dicts[i]._origin_endpoint = endpoint}

FirstOf(S) == CHOOSE i \in S : \A k \in S : i <= k

\* db.entry.find_one({'_origin_id': o, '_dict_id': d})
MirroredEntry(coll, o, d) ==
    {i \in DOMAIN coll :
        /\ "_origin_id" \in DOMAIN coll[i]
        /\ coll[i]._origin_id = o
        /\ coll[i]._dict_id = d}

RECURSIVE MirrorEntries(_, _, _, _)
\* get_one_entry for the origin ids in turn: an entry already mirrored is
\* kept, another is fetched and inserted under a new id.
MirrorEntries(coll, origin_ids, d, next) ==
    IF origin_ids = <<>> THEN [coll |-> coll, next |-> next]
    ELSE IF MirroredEntry(coll, Head(origin_ids), d) # {}
         THEN MirrorEntries(coll, Tail(origin_ids), d, next)
         ELSE MirrorEntries(
                 Append(coll, [_id |-> next, _dict_id |-> d,
                               _origin_id |-> Head(origin_ids)]),
                 Tail(origin_ids), d, next + 1)

\* _get_entries(ref) on the store: the mirror dictionary found or inserted,
\* then the first n origin entries mirrored (all of them unless a request
\* raises on the way).
GetEntries(ref, n) ==
    LET found    == MirrorsOf(ref.id, ref.endpoint)
        our_id   == IF found # {} THEN dicts[FirstOf(found)]._id ELSE Str(nextId)
        dicts1   == IF found # {} THEN dicts
                    ELSE Append(dicts, [_id |-> our_id, api_key |-> None,
                                        _origin_id |-> ref.id,
                                        _origin_endpoint |-> ref.endpoint,
                                        _entries |-> <<>>])
        next1    == IF found # {} THEN nextId ELSE nextId + 1
        done     == MirrorEntries(entry, SubSeq(RemoteEntries, 1, n), our_id, next1)
        added    == SubSeq(done.coll, Len(entry) + 1, Len(done.coll))
        dicts2   == [i \in DOMAIN dicts1 |->
                        IF dicts1[i]._id = our_id
                        THEN [dicts1[i] EXCEPT !._entries =
                                 @ \o [k \in DOMAIN added |-> Str(added[k]._id)]]
                        ELSE dicts1[i]]
    IN  [dicts |-> dicts2, entry |-> done.coll, next |-> done.next,
         ref |-> [id |-> our_id, endpoint |-> LocalEndpoint]]

\* Fetch linked entries to obtain a local copy: the source (lines 101-105)
MirrorSource(l) ==
    /\ lpc[l] = "mirror_source"
    /\ IF lv[l].source.endpoint = None
       THEN /\ LGoto(l, "mirror_target")
            /\ lv' = [lv EXCEPT ![l].source.endpoint = LocalEndpoint]
            /\ UNCHANGED <<dicts, entry, nextId>>
       ELSE \E n \in 0..Len(RemoteEntries) : \E fault \in BOOLEAN :
               LET got    == GetEntries(lv[l].source, n)
                   locals == [lv[l] EXCEPT !.origin_source_dict_id = lv[l].source.id]
               IN  /\ dicts' = got.dicts
                   /\ entry' = got.entry
                   /\ nextId' = got.next
                   /\ IF fault \/ n < Len(RemoteEntries)
                      THEN LRaiseWith(l, locals, "_get_entries")
                      ELSE /\ LGoto(l, "mirror_target")
                           /\ lv' = [lv EXCEPT ![l] = [locals EXCEPT !.source = got.ref]]
    /\ UNCHANGED <<import_jobs, upload, fileExists, pc, exc, obj,
                   linking_jobs, backend, executable>>

\* Fetch linked entries to obtain a local copy: the target (lines 106-113)
MirrorTarget(l) ==
    /\ lpc[l] = "mirror_target"
    /\ IF IsBabelnet(l)
       THEN LGoto(l, "dispatch") /\ UNCHANGED <<lv, dicts, entry, nextId>>
       ELSE IF lv[l].target.endpoint = None
       THEN /\ LGoto(l, "dispatch")
            /\ lv' = [lv EXCEPT ![l].target.endpoint = LocalEndpoint]
            /\ UNCHANGED <<dicts, entry, nextId>>
       ELSE \E n \in 0..Len(RemoteEntries) : \E fault \in BOOLEAN :
               LET got    == GetEntries(lv[l].target, n)
                   locals == [lv[l] EXCEPT !.origin_target_dict_id = lv[l].target.id]
               IN  /\ dicts' = got.dicts
                   /\ entry' = got.entry
                   /\ nextId' = got.next
                   /\ IF fault \/ n < Len(RemoteEntries)
                      THEN LRaiseWith(l, locals, "_get_entries")
                      ELSE /\ LGoto(l, "dispatch")
                           /\ lv' = [lv EXCEPT ![l] = [locals EXCEPT !.target = got.ref]]
    /\ UNCHANGED <<import_jobs, upload, fileExists, pc, exc, obj,
                   linking_jobs, backend, executable>>

\* The task id the remote service answers a submit request with.
TaskId == "T1"

\* Lines 115-121: the local executable when use_executable, else the submit
\* request.
DispatchVia(l, use_executable) ==
    /\ lpc[l] = "dispatch"
    /\ IF use_executable
       THEN /\ \E fault \in BOOLEAN :
               \E links \in ExecutableResults(lv[l].source.id, lv[l].target.id) :
                  IF fault
                  THEN LRaiseWith(l, [lv[l] EXCEPT !.ran_executable = TRUE], "Naisc errored")
                  ELSE /\ LGoto(l, "remap")
                       /\ lv' = [lv EXCEPT ![l].result = links,
                                           ![l].ran_executable = TRUE]
            /\ UNCHANGED backend
       ELSE \E fault \in BOOLEAN :
               LET sent == [lv[l] EXCEPT !.http = Post(@, "submit", lv[l].service_url, {})]
               IN  IF fault THEN LRaiseWith(l, sent, "submit") /\ UNCHANGED backend
                   ELSE /\ LGoto(l, "poll")
                        /\ lv' = [lv EXCEPT ![l] = [sent EXCEPT !.remote_task_id = TaskId]]
                        /\ backend' = [backend EXCEPT ![l].state = PROCESSING]
    /\ UNCHANGED <<importVars, linking_jobs, executable>>

\* A selection that runs the executable whenever one is configured.
DispatchExecutableFirst(l) == DispatchVia(l, executable)

\* if not is_babelnet and settings.LINKING_NAISC_EXECUTABLE: ... else: ...
Dispatch(l) == DispatchVia(l, ~IsBabelnet(l) /\ executable)

\* The message of a status reply of the remote service: LinkingStatus(**response.json())
\* accepts any string, the empty one included.
BackendMessages == {"", "no links found"}

\* The remote service ends its task, COMPLETED or FAILED, with a message and
\* its result list.
BackendFinish(l) ==
    /\ backend[l].state = PROCESSING
    /\ \E st \in {COMPLETED, FAILED} :
       \E msg \in BackendMessages :
       \E links \in SeqsUpTo(RemoteRecords(lv[l].source.id, lv[l].target.id), MaxLinks)
                       \cup {Malformed} :
          backend' = [backend EXCEPT ![l] = [state |-> st, message |-> msg, payload |-> links]]
    /\ UNCHANGED <<importVars, linking_jobs, lpc, lv, executable>>

\* A polling loop that takes the first status reply as final, whatever it says.
PollOnce(l) ==
    /\ lpc[l] = "poll"
    /\ \E fault \in BOOLEAN :
          LET sent == [lv[l] EXCEPT
                          !.http = Post(@, "status", lv[l].service_url, {lv[l].remote_task_id})]
          IN  IF fault THEN LRaiseWith(l, sent, "status")
              ELSE /\ lv' = [lv EXCEPT ![l] = [sent EXCEPT
                                !.new_status = [state |-> backend[l].state,
                                                message |-> backend[l].message],
                                !.http.last = backend[l].state]]
                   /\ LGoto(l, "result")
    /\ UNCHANGED <<importVars, linking_jobs, backend, executable>>

\* Wait for task completion (lines 124-134): one status request; a terminal
\* reply leaves the loop, another one sleeps and asks again.
Poll(l) ==
    /\ lpc[l] = "poll"
    /\ \E fault \in BOOLEAN :
          LET sent == [lv[l] EXCEPT
                          !.http = Post(@, "status", lv[l].service_url, {lv[l].remote_task_id})]
          IN  IF fault THEN LRaiseWith(l, sent, "status")
              ELSE /\ lv' = [lv EXCEPT ![l] = [sent EXCEPT
                                !.new_status = [state |-> backend[l].state,
                                                message |-> backend[l].message],
                                !.http.last = backend[l].state]]
                   /\ IF backend[l].state \in {COMPLETED, FAILED}
                      THEN LGoto(l, "result") ELSE UNCHANGED lpc
    /\ UNCHANGED <<importVars, linking_jobs, backend, executable>>

\* result = _upstream_result(job)
FetchResult(l) ==
    /\ lpc[l] = "result"
    /\ \E fault \in BOOLEAN :
          LET sent == [lv[l] EXCEPT
                          !.http = Post(@, "result", lv[l].service_url, {lv[l].remote_task_id})]
          IN  IF fault THEN LRaiseWith(l, sent, "result")
              ELSE IF ~Validated(backend[l].payload).ok
              THEN LRaiseWith(l, sent, "ValidationError")
              ELSE /\ LGoto(l, "remap")
                   /\ lv' = [lv EXCEPT ![l] = [sent EXCEPT
                                !.result = Validated(backend[l].payload).items]]
    /\ UNCHANGED <<importVars, linking_jobs, backend, executable>>

\* to_origin_id = {str(i['_id']): i['_origin_id'] for i in entries}
ToOriginId(d) ==
    {<<Str(entry[i]._id), entry[i]._origin_id>> :
        i \in {k \in DOMAIN entry : entry[k]._dict_id = d /\ "_origin_id" \in DOMAIN entry[k]}}

Lookup(map, key) == (CHOOSE p \in map : p[1] = key)[2]

RECURSIVE RemapSideBoth(_, _, _)
\* A conversion that writes the origin id over both references of a record.
RemapSideBoth(records, results_key, map) ==
    IF records = <<>> THEN [ok |-> TRUE, items |-> <<>>]
    ELSE IF \A p \in map : p[1] # Head(records)[results_key]
         THEN [ok |-> FALSE, items |-> records]
         ELSE LET rest == RemapSideBoth(Tail(records), results_key, map)
              IN  [ok |-> rest.ok,
                   items |-> <<[Head(records) EXCEPT
                                   !.source_entry = Lookup(map, Head(records)[results_key]),
                                   !.target_entry = Lookup(map, Head(records)[results_key])]>>
                                \o rest.items]

RECURSIVE RemapSide(_, _, _)
\* for res in origin_result: res[results_key] = to_origin_id[res[results_key]]
\* ok is FALSE when a key is missing (KeyError); the records before it stay
\* rewritten.
RemapSide(records, results_key, map) ==
    IF records = <<>> THEN [ok |-> TRUE, items |-> <<>>]
    ELSE IF \A p \in map : p[1] # Head(records)[results_key]
         THEN [ok |-> FALSE, items |-> records]
         ELSE LET rest == RemapSide(Tail(records), results_key, map)
              IN  [ok |-> rest.ok,
                   items |-> <<[Head(records) EXCEPT
                                   ![results_key] = Lookup(map, Head(records)[results_key])]>>
                                \o rest.items]

\* Convert results to origin entry ids (lines 136-155).  origin_result is
\* our_result.copy(), a new list of the same record objects: rewriting a
\* record of origin_result rewrites that record of our_result.
Remap(l) ==
    /\ lpc[l] = "remap"
    /\ LET res   == lv[l].result
           viaS  == lv[l].origin_source_dict_id # None
           viaT  == lv[l].origin_target_dict_id # None
           side1 == IF viaS THEN RemapSide(res, "source_entry", ToOriginId(lv[l].source.id))
                    ELSE [ok |-> TRUE, items |-> res]
           side2 == IF viaT /\ side1.ok
                    THEN RemapSide(side1.items, "target_entry", ToOriginId(lv[l].target.id))
                    ELSE side1
       IN  IF ~viaS /\ ~viaT
           THEN /\ LGoto(l, "finally")
                /\ lv' = [lv EXCEPT ![l].our_result = List(res), ![l].origin_result = Null]
           ELSE \E fault \in BOOLEAN : \E sofar \in {res, side1.items} :
                   IF fault
                   THEN LRaiseWith(l, [lv[l] EXCEPT !.our_result = List(sofar),
                                                    !.origin_result = List(sofar)], "find")
                   ELSE IF ~side2.ok
                   THEN LRaiseWith(l, [lv[l] EXCEPT !.our_result = List(side2.items),
                                                    !.origin_result = List(side2.items)],
                                   "KeyError")
                   ELSE /\ LGoto(l, "finally")
                        /\ lv' = [lv EXCEPT ![l].our_result = List(side2.items),
                                            ![l].origin_result = List(side2.items)]
    /\ UNCHANGED <<importVars, linking_jobs, backend, executable>>

\* A finally clause that stores the status without the results.
FinallyStatusOnly(l) ==
    /\ lpc[l] = "finally"
    /\ linking_jobs' = [linking_jobs EXCEPT
          ![l].state = lv[l].new_status.state,
          ![l].message = lv[l].new_status.message,
          ![l].service_url = lv[l].service_url,
          ![l].remote_task_id = lv[l].remote_task_id]
    /\ LGoto(l, "returned")
    /\ UNCHANGED <<importVars, lv, backend, executable>>

\* finally: update_one({'$set': dict(new_status, our_result=..., origin_result=...,
\* service_url=..., remote_task_id=...)}), then the function returns.
Finally(l) ==
    /\ lpc[l] = "finally"
    /\ IF l \in DOMAIN linking_jobs
       THEN linking_jobs' = [linking_jobs EXCEPT
                ![l].state = lv[l].new_status.state,
                ![l].message = lv[l].new_status.message,
                ![l].our_result = lv[l].our_result,
                ![l].origin_result = lv[l].origin_result,
                ![l].service_url = lv[l].service_url,
                ![l].remote_task_id = lv[l].remote_task_id]
       ELSE UNCHANGED linking_jobs
    /\ LGoto(l, "returned")
    /\ UNCHANGED <<importVars, lv, backend, executable>>

\* What a submitted job may name as its source or target: a dictionary of
\* this service (no endpoint), one of the remote service, or BabelNet.
DictRefs ==
    {[id |-> SeedJob, endpoint |-> None], [id |-> UnknownDict, endpoint |-> None],
     [id |-> RemoteDict, endpoint |-> RemoteEndpoint], [id |-> BABELNET_ID, endpoint |-> None]}

\* The document that submit inserts: job.dict(exclude_unset=True, exclude_none=True)
Submitted(src, tgt) ==
    [source |-> src, target |-> tgt, state |-> "unset", message |-> "unset",
     our_result |-> Unset, origin_result |-> Unset,
     service_url |-> "unset", remote_task_id |-> "unset"]

LinkIds == {"l1"}

\* State after the seed import and the submission of a linking job.
InitLink ==
    /\ InitImportWith({<<cat, dog>>}, {}, {None})
    /\ \E src \in DictRefs : \E tgt \in DictRefs :
          linking_jobs = [l \in LinkIds |-> Submitted(src, tgt)]
    /\ lpc = [l \in LinkIds |-> "queued"]
    /\ lv = [l \in LinkIds |-> InitLocals]
    /\ backend = [l \in LinkIds |-> [state |-> "idle", message |-> "", payload |-> <<>>]]
    /\ executable \in BOOLEAN
    /\ NoTasks
    /\ NoTempFiles
    /\ NoCall

NextLink ==
    \/ \E l \in LinkIds : LoadJob(l)
    \/ \E l \in LinkIds : SetDefaults(l)
    \/ \E l \in LinkIds : MirrorSource(l)
    \/ \E l \in LinkIds : MirrorTarget(l)
    \/ \E l \in LinkIds : Dispatch(l)
    \/ \E l \in LinkIds : BackendFinish(l)
    \/ \E l \in LinkIds : Poll(l)
    \/ \E l \in LinkIds : FetchResult(l)
    \/ \E l \in LinkIds : Remap(l)
    \/ \E l \in LinkIds : Finally(l)

SpecLink == InitLink /\ [][NextLink /\ UNCHANGED <<taskVars, tempVars, callVars>>]_vars

\* The job id is on the queue and the child has started, but find_one does not
\* return the job document yet.
InitUnsynced ==
    /\ InitImportWith({<<cat, dog>>}, {}, {None})
    /\ linking_jobs = <<>>
    /\ lpc = [l \in LinkIds |-> "queued"]
    /\ lv = [l \in LinkIds |-> InitLocals]
    /\ backend = [l \in LinkIds |-> [state |-> "idle", message |-> "", payload |-> <<>>]]
    /\ executable \in BOOLEAN
    /\ NoTasks
    /\ NoTempFiles
    /\ NoCall

\* The inserted job document becomes visible to find_one.
Sync(l) ==
    /\ l \notin DOMAIN linking_jobs
    /\ \E src \in DictRefs : \E tgt \in DictRefs :
          linking_jobs' = [k \in DOMAIN linking_jobs \cup {l} |->
                              IF k = l THEN Submitted(src, tgt) ELSE linking_jobs[k]]
    /\ UNCHANGED <<importVars, lpc, lv, backend, executable>>

NextUnsynced ==
    \/ NextLink
    \/ \E l \in LinkIds : Sync(l)

\* The child process keeps running: each of its steps that can be taken is
\* taken eventually.  Nothing makes the document visible or the service finish.
FairJob ==
    \A l \in LinkIds :
        /\ WF_vars(LoadJob(l) /\ UNCHANGED <<taskVars, tempVars, callVars>>)
        /\ WF_vars(SetDefaults(l) /\ UNCHANGED <<taskVars, tempVars, callVars>>)
        /\ WF_vars(MirrorSource(l) /\ UNCHANGED <<taskVars, tempVars, callVars>>)
        /\ WF_vars(MirrorTarget(l) /\ UNCHANGED <<taskVars, tempVars, callVars>>)
        /\ WF_vars(Dispatch(l) /\ UNCHANGED <<taskVars, tempVars, callVars>>)
        /\ WF_vars(Poll(l) /\ UNCHANGED <<taskVars, tempVars, callVars>>)
        /\ WF_vars(FetchResult(l) /\ UNCHANGED <<taskVars, tempVars, callVars>>)
        /\ WF_vars(Remap(l) /\ UNCHANGED <<taskVars, tempVars, callVars>>)
        /\ WF_vars(Finally(l) /\ UNCHANGED <<taskVars, tempVars, callVars>>)

SpecUnsynced ==
    /\ InitUnsynced
    /\ [][NextUnsynced /\ UNCHANGED <<taskVars, tempVars, callVars>>]_vars
    /\ FairJob

-----------------------------------------------------------------------------
(* The job dispatcher: app/tasks.py *)

\* The most job ids put on the queue of the Task.
MaxJobs == 3

\* settings.UPLOAD_N_WORKERS, the n_workers of the file import Task
UPLOAD_N_WORKERS == 2

Workers == 1..UPLOAD_N_WORKERS

\* A worker thread that holds no job id and no child.
Waiting == [at |-> "get", arg |-> 0, proc |-> 0]

\* An ingestion endpoint puts the id of the job it has just stored on the queue.
Put ==
    /\ put < MaxJobs
    /\ put' = put + 1
    /\ queue' = Append(queue, put + 1)
    /\ UNCHANGED <<importVars, linkVars, tempVars, callVars, worker, procs>>

\* for arg in iter(queue.get, None): the thread takes the next id off the queue
Get(w) ==
    /\ worker[w].at = "get"
    /\ queue # <<>>
    /\ worker' = [worker EXCEPT ![w] = [at |-> "start", arg |-> Head(queue), proc |-> 0]]
    /\ queue' = Tail(queue)
    /\ UNCHANGED <<importVars, linkVars, tempVars, callVars, put, procs>>

\* proc = Process(target=self.target, args=(arg,), ...); proc.start()
Start(w) ==
    /\ worker[w].at = "start"
    /\ procs' = Append(procs, [arg |-> worker[w].arg, worker |-> w, state |-> "alive"])
    /\ worker' = [worker EXCEPT ![w].at = "join", ![w].proc = Len(procs) + 1]
    /\ UNCHANGED <<importVars, linkVars, tempVars, callVars, queue, put>>

\* The child process ends: the handler returned (exit code 0), or it raised,
\* called exit with another code or was ended by a signal ("failed").
ChildExits(p) ==
    /\ procs[p].state = "alive"
    /\ \E how \in {"exit0", "failed"} : procs' = [procs EXCEPT ![p].state = how]
    /\ UNCHANGED <<importVars, linkVars, tempVars, callVars, queue, put, worker>>

\* A dispatcher that puts the id back on the queue when its child failed.
JoinReturnsRequeue(w) ==
    /\ worker[w].at = "join"
    /\ procs[worker[w].proc].state # "alive"
    /\ worker' = [worker EXCEPT ![w] = Waiting]
    /\ queue' = IF procs[worker[w].proc].state = "failed"
                THEN Append(queue, worker[w].arg) ELSE queue
    /\ UNCHANGED <<importVars, linkVars, tempVars, callVars, put, procs>>

\* A worker thread that ends when its child failed.
JoinReturnsOrDies(w) ==
    /\ worker[w].at = "join"
    /\ procs[worker[w].proc].state # "alive"
    /\ worker' = [worker EXCEPT ![w] =
                     IF procs[worker[w].proc].state = "failed"
                     THEN [at |-> "dead", arg |-> 0, proc |-> 0] ELSE Waiting]
    /\ UNCHANGED <<importVars, linkVars, tempVars, callVars, queue, put, procs>>

\* proc.join(timeout) returns because the child has ended; a non-zero exit
\* code is logged; the loop goes on to the next queue.get.
JoinReturns(w) ==
    /\ worker[w].at = "join"
    /\ procs[worker[w].proc].state # "alive"
    /\ worker' = [worker EXCEPT ![w] = Waiting]
    /\ UNCHANGED <<importVars, linkVars, tempVars, callVars, queue, put, procs>>

\* proc.join(timeout) returns because the timeout has passed: proc.exitcode is
\* None, the failure is logged, and the loop goes on to the next queue.get.
\* Nothing is done to the child.
JoinTimesOut(w) ==
    /\ worker[w].at = "join"
    /\ procs[worker[w].proc].state = "alive"
    /\ worker' = [worker EXCEPT ![w] = Waiting]
    /\ UNCHANGED <<importVars, linkVars, tempVars, callVars, queue, put, procs>>

\* Task.start(): n_workers threads, nothing on the queue; the store as the
\* seed import left it.
InitTask ==
    /\ InitImportWith({<<cat>>}, {}, {None})
    /\ linking_jobs = <<>> /\ lpc = <<>> /\ lv = <<>> /\ backend = <<>>
    /\ executable = FALSE
    /\ queue = <<>>
    /\ put = 0
    /\ worker = [w \in Workers |-> Waiting]
    /\ procs = <<>>
    /\ NoTempFiles
    /\ NoCall

NextTask ==
    \/ Put
    \/ \E w \in Workers : Get(w)
    \/ \E w \in Workers : Start(w)
    \/ \E p \in DOMAIN procs : ChildExits(p)
    \/ \E w \in Workers : JoinReturns(w)
    \/ \E w \in Workers : JoinTimesOut(w)

SpecTask == InitTask /\ [][NextTask]_vars

\* The threads keep running, queue.get returns when the queue holds an id,
\* and proc.join(timeout) returns when the child has ended or the (finite)
\* timeout has passed.
FairTask ==
    \A w \in Workers :
        /\ WF_vars(Get(w))
        /\ WF_vars(Start(w))
        /\ WF_vars(JoinReturns(w))
        /\ WF_vars(JoinTimesOut(w))

SpecTaskFair == InitTask /\ [][NextTask]_vars /\ FairTask

-----------------------------------------------------------------------------
(* Temporary files of a linking job: _get_entries.response_to_entry_obj and  *)
(* _linking_from_naisc_executable (app/linking/ops.py)                       *)

\* The most entries of a remote dictionary that one job converts.
MaxMirrored == 2

TfGoto(label) == tf' = [tf EXCEPT !.at = label]

\* The function raises: raised holds the statement, and the temporary-file
\* process is at label.
TfRaise(label, what) == tf' = [tf EXCEPT !.at = label, !.raised = what]

\* for fmt in ('json', 'ontolex', 'tei')
Formats == <<"json", "ontolex", "tei">>

\* get_one_entry goes on to the next origin entry, or _get_entries returns
\* after the last one and the job goes on to the executable, if it runs one.
NextEntry(t) ==
    [t EXCEPT !.todo = @ - 1, !.cur = @ + 1,
              !.fmt = 0, !.requests = <<>>, !.used = None,
              !.at = IF t.todo > 1 THEN "lookup"
                     ELSE IF t.run_executable THEN "create" ELSE "returned"]

\* get_one_entry, lines 208-211: db.entry.find_one for the origin entry; one
\* that is mirrored already is returned without a request.
FindMirrored ==
    /\ tf.at = "lookup"
    /\ \E fault \in BOOLEAN : \E found \in BOOLEAN :
          IF fault THEN TfRaise("raised", "find_one")
          ELSE IF found THEN tf' = NextEntry(tf)
          ELSE tf' = [tf EXCEPT !.at = "request", !.fmt = 1]
    /\ UNCHANGED <<importVars, linkVars, taskVars, callVars, disk>>

\* A negotiation that takes the first response, error or not.
RequestEntryFirst ==
    /\ tf.at = "request"
    /\ \E reply \in {"raise", "error", "ok"} :
          LET sent == [tf EXCEPT !.requests =
                          Append(@, [fmt |-> Formats[tf.fmt], is_error |-> reply = "error"])]
          IN  IF reply = "raise" THEN tf' = [sent EXCEPT !.at = "raised", !.raised = "client.get"]
              ELSE tf' = [sent EXCEPT !.at = "convert", !.used = Formats[tf.fmt]]
    /\ UNCHANGED <<importVars, linkVars, taskVars, callVars, disk>>

\* get_one_entry, lines 213-220: one client.get of the loop over the formats.
\* A response that is no error leaves the loop with its format; an error
\* response goes on to the next format, and after the last format the else
\* clause of the loop raises ValueError.
RequestEntry ==
    /\ tf.at = "request"
    /\ \E reply \in {"raise", "error", "ok"} :
          LET sent == [tf EXCEPT !.requests =
                          Append(@, [fmt |-> Formats[tf.fmt], is_error |-> reply = "error"])]
          IN  IF reply = "raise" THEN tf' = [sent EXCEPT !.at = "raised", !.raised = "client.get"]
              ELSE IF reply = "ok"
              THEN tf' = [sent EXCEPT !.at = "convert", !.used = Formats[tf.fmt]]
              ELSE IF tf.fmt < Len(Formats) THEN tf' = [sent EXCEPT !.fmt = @ + 1]
              ELSE tf' = [sent EXCEPT !.at = "raised", !.raised = "No suitable format"]
    /\ UNCHANGED <<importVars, linkVars, taskVars, callVars, disk>>

\* response_to_entry_obj, line 197: NamedTemporaryFile(mode='w', delete=False)
CreateEntryFile ==
    /\ tf.at = "convert"
    /\ \E fault \in BOOLEAN :
          IF fault THEN TfRaise("raised", "NamedTemporaryFile") /\ UNCHANGED disk
          ELSE /\ disk' = disk \cup {tf.next}
               /\ tf' = [tf EXCEPT !.at = "write", !.fd = tf.next, !.next = @ + 1]
    /\ UNCHANGED <<importVars, linkVars, taskVars, callVars>>

\* Lines 198-199: fd.write(text); filename = fd.name.  The with block closes
\* the file and, delete being False, leaves it on disk.
WriteEntryFile ==
    /\ tf.at = "write"
    /\ \E fault \in BOOLEAN :
          IF fault THEN TfRaise("raised", "fd.write")
          ELSE tf' = [tf EXCEPT !.at = "parse", !.filename = tf.fd]
    /\ UNCHANGED <<importVars, linkVars, taskVars, callVars, disk>>

\* Lines 200-201: try: dict_obj = file_to_obj(filename)
ParseEntryFile ==
    /\ tf.at = "parse"
    /\ \E fault \in BOOLEAN :
          tf' = [tf EXCEPT !.at = "remove", !.raised = IF fault THEN "file_to_obj" ELSE ""]
    /\ UNCHANGED <<importVars, linkVars, taskVars, callVars, disk>>

\* Lines 202-205: finally: os.remove(filename); then the entry is returned,
\* or the exception of file_to_obj goes on.
RemoveEntryFile ==
    /\ tf.at = "remove"
    /\ \E fault \in BOOLEAN :
          IF fault THEN TfRaise("raised", "os.remove") /\ UNCHANGED disk
          ELSE /\ disk' = disk \ {tf.filename}
               /\ TfGoto(IF tf.raised # "" THEN "raised" ELSE "insert")
    /\ UNCHANGED <<importVars, linkVars, taskVars, callVars>>

\* get_one_entry, lines 223-230: db.entry.insert_one(entry_obj) and the $push
\* of the new id to the mirror dictionary.
InsertEntry ==
    /\ tf.at = "insert"
    /\ \E fault \in BOOLEAN :
          IF fault THEN TfRaise("raised", "insert_one")
          ELSE tf' = NextEntry([tf EXCEPT
                          !.inserted = @ \cup {[entry |-> tf.cur, fmt |-> tf.used]}])
    /\ UNCHANGED <<importVars, linkVars, taskVars, callVars, disk>>

\* _linking_from_naisc_executable, line 278, for the source side and then the
\* target side: NamedTemporaryFile(suffix='.ttl', delete=False)
CreateExportFile ==
    /\ tf.at = "create"
    /\ \E fault \in BOOLEAN :
          IF fault THEN TfRaise("finally", "NamedTemporaryFile") /\ UNCHANGED disk
          ELSE /\ disk' = disk \cup {tf.next}
               /\ tf' = [tf EXCEPT !.at = "session", !.fd = tf.next, !.next = @ + 1]
    /\ UNCHANGED <<importVars, linkVars, taskVars, callVars>>

\* Lines 279-280: the second context manager of the with statement,
\* get_db_sync() (start_session, start_transaction), and then
\* temp_files.append(fd.name)
OpenSession ==
    /\ tf.at = "session"
    /\ \E fault \in BOOLEAN :
          IF fault THEN TfRaise("finally", "get_db_sync")
          ELSE tf' = [tf EXCEPT !.at = "export", !.temp_files = Append(@, tf.fd)]
    /\ UNCHANGED <<importVars, linkVars, taskVars, callVars, disk>>

\* Lines 281-292: find the entries, export_for_naisc, fd.write
ExportEntries ==
    /\ tf.at = "export"
    /\ \E fault \in BOOLEAN :
          IF fault THEN TfRaise("finally", "export_for_naisc")
          ELSE tf' = [tf EXCEPT !.side = @ + 1,
                                !.at = IF tf.side = 1 THEN "create" ELSE "run"]
    /\ UNCHANGED <<importVars, linkVars, taskVars, callVars, disk>>

\* Lines 294-302: subprocess.run; RuntimeError when Naisc failed
RunNaisc ==
    /\ tf.at = "run"
    /\ \E fault \in BOOLEAN :
          IF fault THEN TfRaise("finally", "Naisc errored") ELSE TfGoto("finally")
    /\ UNCHANGED <<importVars, linkVars, taskVars, callVars, disk>>

\* Lines 303-306: finally: for file in temp_files: os.remove(file); one file
\* at a step, and after the last one the function returns or the exception
\* goes on.
RemoveExportFiles ==
    /\ tf.at = "finally"
    /\ IF tf.temp_files = <<>>
       THEN /\ TfGoto(IF tf.raised = "" THEN "returned" ELSE "raised")
            /\ UNCHANGED disk
       ELSE \E fault \in BOOLEAN :
               IF fault THEN TfRaise("raised", "os.remove") /\ UNCHANGED disk
               ELSE /\ disk' = disk \ {Head(tf.temp_files)}
                    /\ tf' = [tf EXCEPT !.temp_files = Tail(@)]
    /\ UNCHANGED <<importVars, linkVars, taskVars, callVars>>

\* A linking job that mirrors todo entries of a remote dictionary and then
\* runs the executable, or does one of the two.
InitTemp ==
    /\ InitImportWith({<<cat>>}, {}, {None})
    /\ linking_jobs = <<>> /\ lpc = <<>> /\ lv = <<>> /\ backend = <<>>
    /\ executable \in BOOLEAN
    /\ NoTasks
    /\ NoCall
    /\ disk = {}
    /\ \E n \in 0..MaxMirrored :
          /\ n > 0 \/ executable
          /\ tf = [at |-> IF n > 0 THEN "lookup" ELSE "create",
                   todo |-> n, run_executable |-> executable, side |-> 1,
                   fd |-> 0, filename |-> 0, temp_files |-> <<>>,
                   next |-> 1, raised |-> "",
                   cur |-> 1, fmt |-> 0, requests |-> <<>>, used |-> None,
                   inserted |-> {}]

NextTemp ==
    \/ FindMirrored
    \/ RequestEntry
    \/ CreateEntryFile
    \/ WriteEntryFile
    \/ ParseEntryFile
    \/ RemoveEntryFile
    \/ InsertEntry
    \/ CreateExportFile
    \/ OpenSession
    \/ ExportEntries
    \/ RunNaisc
    \/ RemoveExportFiles

SpecTemp == InitTemp /\ [][NextTemp]_vars

-----------------------------------------------------------------------------
(* The linking worker thread: _linking_worker (app/linking/router.py) *)

\* settings.LINKING_N_WORKERS
LINKING_N_WORKERS == 2

\* The one thread started by init_linking_task_worker; processes is its list
\* of children not reaped yet.
LinkingThread == [at |-> "get", processes |-> {}]

\* submit: _linking_queue.put(job_id), after the job document is inserted
SubmitPut ==
    /\ put < MaxJobs
    /\ put' = put + 1
    /\ queue' = Append(queue, put + 1)
    /\ UNCHANGED <<importVars, linkVars, tempVars, callVars, worker, procs>>

\* for id in iter(queue.get, None): proc = mp.Process(target=process_linking_job,
\* args=(id,), ...); proc.start(); processes.append(proc)
SpawnChild ==
    /\ worker[1].at = "get"
    /\ queue # <<>>
    /\ queue' = Tail(queue)
    /\ procs' = Append(procs, [arg |-> Head(queue), worker |-> 1, state |-> "alive"])
    /\ worker' = [worker EXCEPT ![1] = [at |-> "reap",
                                        processes |-> @.processes \cup {Len(procs) + 1}]]
    /\ UNCHANGED <<importVars, linkVars, tempVars, callVars, put>>

\* Reap dead children: every child of the list that is not alive is joined
\* and taken off the list; the others stay as they are.
ReapDead ==
    /\ worker[1].at = "reap"
    /\ worker' = [worker EXCEPT ![1] =
                     [at |-> "get",
                      processes |-> {p \in @.processes : procs[p].state = "alive"}]]
    /\ UNCHANGED <<importVars, linkVars, tempVars, callVars, queue, put, procs>>

InitLinkWorker ==
    /\ InitImportWith({<<cat>>}, {}, {None})
    /\ linking_jobs = <<>> /\ lpc = <<>> /\ lv = <<>> /\ backend = <<>>
    /\ executable = FALSE
    /\ queue = <<>>
    /\ put = 0
    /\ worker = <<LinkingThread>>
    /\ procs = <<>>
    /\ NoTempFiles
    /\ NoCall

NextLinkWorker ==
    \/ SubmitPut
    \/ SpawnChild
    \/ ReapDead
    \/ \E p \in DOMAIN procs : ChildExits(p)

SpecLinkWorker == InitLinkWorker /\ [][NextLinkWorker]_vars

-----------------------------------------------------------------------------
(* Metadata of an imported dictionary: file_to_obj (app/rdf.py), the overlay *)
(* of _process_one_file (app/importing/ops.py) and about (app/router_rest.py) *)

MetaFields == {"release", "sourceLanguage", "genre"}

\* ReleasePolicy, Language and Genre values of the files and jobs looked at.
Releases == {"PUBLIC", "PRIVATE"}
Languages == {"en", "sl"}
Genres == {"gen", "lrn"}

\* to_iso639: the language part of an IETF tag, and the two-letter code of a
\* three-letter one that has one; any other value as it is.
to_iso639(lang) ==
    LET primary == CASE lang = "en-US" -> "en"
                     [] lang = "sl-SI" -> "sl"
                     [] OTHER -> lang
    IN  CASE primary = "eng" -> "en"
          [] primary = "slv" -> "sl"
          [] OTHER -> primary

\* What a file says of itself; None is a field the file does not specify.
\* A JSON file is accepted by JsonDictionary only with release and
\* sourceLanguage in its meta object.
MetaFiles ==
    {f \in [fmt : {"json", "ontolex"},
            release : Releases \cup {None},
            sourceLanguage : Languages \cup {None},
            genre : Genres \cup {None}] :
        f.fmt = "json" => f.release # None /\ f.sourceLanguage # None}

\* job.meta: release is a required query parameter, the others are optional.
JobMetas ==
    [release : Releases, sourceLanguage : Languages \cup {None}, genre : Genres \cup {None}]

\* file_to_obj(filename, language)['meta'].  _from_json takes no language;
\* _ontolex_etree_to_dict puts the caller's language first and fails when
\* neither it nor the document gives one.
FileMeta(f, language) ==
    IF f.fmt = "json"
    THEN [ok |-> TRUE,
          meta |-> [release |-> f.release, sourceLanguage |-> f.sourceLanguage,
                    genre |-> f.genre]]
    ELSE LET lexicon_lang == IF language # None THEN to_iso639(language)
                             ELSE f.sourceLanguage
         IN  [ok |-> lexicon_lang # None,
              meta |-> [release |-> f.release, sourceLanguage |-> lexicon_lang,
                        genre |-> f.genre]]

\* _process_one_file, lines 55-61: obj = file_to_obj(filename,
\* job.meta.sourceLanguage); obj.update(job.meta.dict(exclude_none=True,
\* exclude_unset=True)); the dictionary document is stored with the job's
\* fields at its top level and the file's under 'meta'.
OverlayAndStore ==
    /\ ret.at = "scheduled"
    /\ LET parsed == FileMeta(call.file, call.meta.sourceLanguage)
       IN  ret' = IF parsed.ok
                  THEN [at |-> "done", doc |-> [top |-> call.meta, meta |-> parsed.meta],
                        about |-> <<>>]
                  ELSE [ret EXCEPT !.at = "error"]
    /\ UNCHANGED <<importVars, linkVars, taskVars, tempVars, call>>

\* about: doc.update(doc.pop('meta')); a key of meta replaces the key of the
\* same name at the top level.
About ==
    /\ ret.at = "done"
    /\ ret' = [ret EXCEPT
                  !.at = "served",
                  !.about = [k \in MetaFields |->
                                IF ret.doc.meta[k] # None THEN ret.doc.meta[k]
                                ELSE ret.doc.top[k]]]
    /\ UNCHANGED <<importVars, linkVars, taskVars, tempVars, call>>

\* A file import job, stored with its metadata, for a file of either kind.
InitMeta ==
    /\ InitImportWith({<<cat>>}, {}, {None})
    /\ linking_jobs = <<>> /\ lpc = <<>> /\ lv = <<>> /\ backend = <<>>
    /\ executable = FALSE
    /\ NoTasks
    /\ NoTempFiles
    /\ call \in [file : MetaFiles, meta : JobMetas]
    /\ ret = [at |-> "scheduled", doc |-> <<>>, about |-> <<>>]

NextMeta ==
    \/ OverlayAndStore
    \/ About

SpecMeta == InitMeta /\ [][NextMeta]_vars

-----------------------------------------------------------------------------
(* Import from a remote service: _process_one_api (app/importing/ops.py) *)

\* The most items of the remote list.
MaxListed == 3

\* The release of an item of the remote list; None is an item without the key.
ListedReleases == {"PUBLIC", "PRIVATE", None}

\* entry.get('release', ReleasePolicy.PUBLIC)
ReleaseOf(item) == IF item = None THEN "PUBLIC" ELSE item

\* Lines 144-154: the about request and the list request; entries_list is
\* what the remote service lists.
ListRemote ==
    /\ ret.at = "list"
    /\ \E fault \in BOOLEAN :
          ret' = [ret EXCEPT !.at = IF fault THEN "error" ELSE "loop"]
    /\ UNCHANGED <<importVars, linkVars, taskVars, tempVars, call>>

\* A loop body that fetches every listed entry.
FetchListedAll ==
    /\ ret.at = "loop"
    /\ IF ret.i > Len(call.entries_list)
       THEN ret' = [ret EXCEPT !.at = "store"]
       ELSE \E fault \in BOOLEAN :
               LET sent == [ret EXCEPT !.requests = Append(@, ret.i)]
               IN  ret' = IF fault THEN [sent EXCEPT !.at = "error"]
                          ELSE [sent EXCEPT !.entries = Append(@, ret.i), !.i = @ + 1]
    /\ UNCHANGED <<importVars, linkVars, taskVars, tempVars, call>>

\* Lines 156-158: for entry in entries_list: if entry.get('release', PUBLIC)
\* == PUBLIC: entries.append(get_one_entry(entry)); one item at a step.
\* get_one_entry sends one request and may raise.
FetchListed ==
    /\ ret.at = "loop"
    /\ IF ret.i > Len(call.entries_list)
       THEN ret' = [ret EXCEPT !.at = "store"]
       ELSE IF ReleaseOf(call.entries_list[ret.i]) # "PUBLIC"
       THEN ret' = [ret EXCEPT !.i = @ + 1]
       ELSE \E fault \in BOOLEAN :
               LET sent == [ret EXCEPT !.requests = Append(@, ret.i)]
               IN  ret' = IF fault THEN [sent EXCEPT !.at = "error"]
                          ELSE [sent EXCEPT !.entries = Append(@, ret.i), !.i = @ + 1]
    /\ UNCHANGED <<importVars, linkVars, taskVars, tempVars, call>>

\* Lines 160-167: _create_or_update_dict (which asserts that there are
\* entries) and the DONE write; stored is what went into db.entry.
StoreFetched ==
    /\ ret.at = "store"
    /\ \E fault \in BOOLEAN :
          ret' = IF fault \/ ret.entries = <<>>
                 THEN [ret EXCEPT !.at = "error"]
                 ELSE [ret EXCEPT !.at = "done", !.stored = ret.entries]
    /\ UNCHANGED <<importVars, linkVars, taskVars, tempVars, call>>

\* An API import job for a remote dictionary with some list of entries.
InitApi ==
    /\ InitImportWith({<<cat>>}, {}, {None})
    /\ linking_jobs = <<>> /\ lpc = <<>> /\ lv = <<>> /\ backend = <<>>
    /\ executable = FALSE
    /\ NoTasks
    /\ NoTempFiles
    /\ call \in [entries_list : SeqsUpTo(ListedReleases, MaxListed)]
    /\ ret = [at |-> "list", i |-> 1, requests |-> <<>>, entries |-> <<>>, stored |-> <<>>]

NextApi ==
    \/ ListRemote
    \/ FetchListed
    \/ StoreFetched

SpecApi == InitApi /\ [][NextApi]_vars

-----------------------------------------------------------------------------
(* Extraction of an OntoLex document: _ontolex_etree_to_dict (app/rdf.py) *)

\* The most entry elements of a document.
MaxDocEntries == 3

\* The most language elements of a document.
MaxLanguageEls == 2

\* The length that the list of captured error messages is kept to
\* (line 356: if len(errors) < 50), scaled to the documents looked at.
MaxErrors == 2

\* bool(x) of a string or None
Truthy(x) == x # None /\ x # ""

\* a or b, of strings or None
OrStr(a, b) == IF Truthy(a) THEN a ELSE b

\* xml_lang(el), given the value of the nearest xml:lang attribute on el or an
\* ancestor of it (None when there is none)
xml_lang(attr) == IF Truthy(attr) THEN to_iso639(attr) ELSE attr

\* The keys that a dictionary keyed by language can have here.
LangKeys == {"en", "sl", "eng", "slv"}

\* A writtenRep element: its own xml:lang attribute, if any, and its text.
RepEl(lang, text) == [lang |-> lang, text |-> text]

\* An entry element: its own xml:lang attribute, its canonical-form writtenRep
\* elements and the number of its partOfSpeech elements.
EntryEl(lang, reps, pos) == [lang |-> lang, reps |-> reps, pos |-> pos]

\* The entry elements looked at: one headword; two headwords; the same
\* headword twice; a headword and a form in another language; no writtenRep; no
\* partOfSpeech; an entry in another language; a writtenRep without text.
EntryEls ==
    {EntryEl(None, <<RepEl(None, "a")>>, 1),
     EntryEl(None, <<RepEl(None, "a"), RepEl(None, "b")>>, 1),
     EntryEl(None, <<RepEl(None, "a"), RepEl(None, "a")>>, 1),
     EntryEl(None, <<RepEl("sl", "c"), RepEl(None, "b")>>, 1),
     EntryEl(None, <<>>, 1),
     EntryEl(None, <<RepEl(None, "a")>>, 0),
     EntryEl("sl", <<RepEl(None, "a")>>, 1),
     EntryEl(None, <<RepEl(None, "")>>, 1)}

\* A language element: its text, and whether it stands inside an entry.
LanguageEls == [text : {"", "slv", "en"}, in_entry : BOOLEAN]

\* Documents whose lexicon element says xml:lang="en", with every sequence of
\* entry elements.
EntryDocs ==
    [language : {None}, lexicon_attr : {"en"}, language_els : {<<>>},
     entries : SeqsUpTo(EntryEls, MaxDocEntries)]

\* Documents, and caller's languages, that give the language of the lexicon
\* in every combination of the four ways.
LangDocs ==
    [language : {None, "sl", "eng"}, lexicon_attr : {None, "en", "eng"},
     language_els : SeqsUpTo(LanguageEls, MaxLanguageEls),
     entries : {<<EntryEl(None, <<RepEl(None, "a")>>, 1)>>,
                <<EntryEl(None, <<RepEl("sl", "c"), RepEl(None, "b")>>, 1)>>,
                <<EntryEl("en", <<RepEl(None, "a")>>, 1),
                  EntryEl(None, <<RepEl("sl", "c"), RepEl("sl", "b")>>, 1)>>}]

\* The index of the first language element that is no descendant of an
\* entry (is_entry_descendant), 0 if there is none.
FirstOutside(els) ==
    LET outside == {k \in DOMAIN els : ~els[k].in_entry}
    IN  IF outside = {} THEN 0 ELSE CHOOSE k \in outside : \A m \in outside : k <= m

RECURSIVE Flatten(_)
Flatten(seqs) == IF seqs = <<>> THEN <<>> ELSE Head(seqs) \o Flatten(Tail(seqs))

\* root.xpath('.//@xml:lang'): the values of the xml:lang attributes of the
\* document, in document order.
XmlLangAttrs(doc) ==
    SelectSeq(
        <<doc.lexicon_attr>> \o
        Flatten([k \in DOMAIN doc.entries |->
                    <<doc.entries[k].lang>> \o
                    [r \in DOMAIN doc.entries[k].reps |-> doc.entries[k].reps[r].lang]]),
        LAMBDA v : v # None)

Count(seq, v) == Cardinality({k \in DOMAIN seq : seq[k] = v})

\* infer_lang_from_entries: Counter(...).most_common(1)[0][0], the value that
\* occurs most often, the earliest such value among equals; None if there is
\* no attribute.
infer_lang_from_entries(doc) ==
    LET attrs == XmlLangAttrs(doc)
        best  == CHOOSE k \in DOMAIN attrs :
                    /\ \A m \in DOMAIN attrs : Count(attrs, attrs[m]) <= Count(attrs, attrs[k])
                    /\ \A q \in 1..(k-1) : Count(attrs, attrs[q]) < Count(attrs, attrs[k])
    IN  IF attrs = <<>> THEN None ELSE attrs[best]

\* Lines 250-256 with the xml:lang attribute looked at before the caller's
\* language.
LexiconLangAttrFirst(doc) ==
    LET l1 == OrStr(xml_lang(doc.lexicon_attr), to_iso639(doc.language))
        k  == FirstOutside(doc.language_els)
        l2 == IF ~Truthy(l1) /\ k # 0 THEN to_iso639(doc.language_els[k].text) ELSE l1
    IN  IF ~Truthy(l2) THEN infer_lang_from_entries(doc) ELSE l2

\* Lines 250-256: lexicon_lang = to_iso639(language) or xml_lang(lexicon_el);
\* if not lexicon_lang: the first language element outside the entries; if
\* not lexicon_lang: infer_lang_from_entries()
LexiconLang(doc) ==
    LET l1 == OrStr(to_iso639(doc.language), xml_lang(doc.lexicon_attr))
        k  == FirstOutside(doc.language_els)
        l2 == IF ~Truthy(l1) /\ k # 0 THEN to_iso639(doc.language_els[k].text) ELSE l1
    IN  IF ~Truthy(l2) THEN infer_lang_from_entries(doc) ELSE l2

\* Lines 250-258: the language of the lexicon, or the AssertionError.
ResolveLanguage ==
    /\ ret.at = "language"
    /\ LET lexicon_lang == LexiconLang(call)
       IN  ret' = IF Truthy(lexicon_lang)
                  THEN [ret EXCEPT !.at = "entries", !.lexicon_lang = lexicon_lang]
                  ELSE [ret EXCEPT !.at = "raised",
                                   !.error = <<"Need language for the dictionary">>]
    /\ UNCHANGED <<importVars, linkVars, taskVars, tempVars, call>>

\* Lines 278-290: entry_obj['canonicalForm']['writtenRep'], a defaultdict
\* that gets the text of each writtenRep element under xml_lang(el) or
\* entry_lang or lexicon_lang.
WrittenRep(doc, e, lexicon_lang) ==
    LET entry_lang == xml_lang(OrStr(e.lang, doc.lexicon_attr))
        key(rep)   == OrStr(xml_lang(rep.lang), OrStr(entry_lang, lexicon_lang))
    IN  [l \in LangKeys |->
            LET at_l == SelectSeq(e.reps, LAMBDA rep : key(rep) = l)
            IN  [k \in DOMAIN at_l |-> at_l[k].text]]

\* remove_empty_keys, of a dictionary of lists of strings: the empty strings
\* go, and with them the keys whose list is left empty (here: the empty list).
remove_empty_keys(written) ==
    [l \in DOMAIN written |-> SelectSeq(written[l], LAMBDA text : text # "")]

\* copy_with_lemma: deepcopy(entry_obj), which puts a new canonical form on
\* the heap, then the lemma and the one-element writtenRep list of the
\* lexicon language are set in the copy.
copy_with_lemma(entry_obj, headword, heap, lexicon_lang) ==
    [heap  |-> Append(heap, [heap[entry_obj.canonicalForm] EXCEPT
                                ![lexicon_lang] = <<headword>>]),
     entry |-> [entry_obj EXCEPT !.lemma = headword, !.canonicalForm = Len(heap) + 1]]

RECURSIVE Explode(_, _, _, _)
\* Lines 351-354: [copy_with_lemma(entry_obj, headword) for headword in
\* entry_obj['canonicalForm']['writtenRep'][lexicon_lang]]
Explode(entry_obj, headwords, heap, lexicon_lang) ==
    IF headwords = <<>> THEN [heap |-> heap, entries |-> <<>>]
    ELSE LET c    == copy_with_lemma(entry_obj, Head(headwords), heap, lexicon_lang)
             rest == Explode(entry_obj, Tail(headwords), c.heap, lexicon_lang)
         IN  [heap |-> rest.heap, entries |-> <<c.entry>> \o rest.entries]

\* Lines 262-354 for entry element number i: the exception it raises ("" if
\* none), and the heap and the copies after it.  The canonical form of an
\* entry object is an index into the heap.
ExtractEntry(doc, i, lexicon_lang, heap) ==
    LET e       == doc.entries[i]
        written == WrittenRep(doc, e, lexicon_lang)
        cleaned == remove_empty_keys(written)
        entry_obj == [origin_id |-> i, lemma |-> None,
                      language |-> OrStr(xml_lang(OrStr(e.lang, doc.lexicon_attr)),
                                         lexicon_lang),
                      canonicalForm |-> Len(heap) + 1]
        exploded == Explode(entry_obj, cleaned[lexicon_lang],
                            Append(heap, cleaned), lexicon_lang)
    IN  IF e.reps = <<>>
        THEN [err |-> "Missing canonicalForm.writtenRep", heap |-> heap, entries |-> <<>>]
        ELSE IF e.pos # 1
        THEN [err |-> "Need exactly one partOfSpeech", heap |-> heap, entries |-> <<>>]
        ELSE IF cleaned[lexicon_lang] = <<>>
        THEN [err |-> "KeyError", heap |-> heap, entries |-> <<>>]
        ELSE [err |-> "", heap |-> exploded.heap, entries |-> exploded.entries]

\* The loop body with an except clause that raises again.
ExtractNextStrict ==
    /\ ret.at = "entries"
    /\ ret.i <= Len(call.entries)
    /\ LET x == ExtractEntry(call, ret.i, ret.lexicon_lang, ret.heap)
       IN  ret' = IF x.err # ""
                  THEN [ret EXCEPT !.at = "raised", !.error = <<x.err>>]
                  ELSE [ret EXCEPT !.i = @ + 1, !.heap = x.heap,
                                   !.entries = @ \o x.entries]
    /\ UNCHANGED <<importVars, linkVars, taskVars, tempVars, call>>

\* Lines 261-360, one turn of the loop over the entry elements: the copies
\* of the entry are added to lexicon_obj['entries'], or its exception is
\* caught and its message kept while the list is short.
ExtractNext ==
    /\ ret.at = "entries"
    /\ ret.i <= Len(call.entries)
    /\ LET x == ExtractEntry(call, ret.i, ret.lexicon_lang, ret.heap)
       IN  ret' = IF x.err # ""
                  THEN [ret EXCEPT !.i = @ + 1,
                                   !.errors = IF Len(@) < MaxErrors
                                              THEN Append(@, x.err) ELSE @]
                  ELSE [ret EXCEPT !.i = @ + 1, !.heap = x.heap,
                                   !.entries = @ \o x.entries]
    /\ UNCHANGED <<importVars, linkVars, taskVars, tempVars, call>>

\* Lines 362-373: ValueError('No valid entries found. Errors:' + ...) when no
\* entry was added, the lexicon object otherwise.
FinishExtraction ==
    /\ ret.at = "entries"
    /\ ret.i > Len(call.entries)
    /\ ret' = IF ret.entries = <<>>
              THEN [ret EXCEPT !.at = "raised",
                               !.error = <<"No valid entries found">> \o ret.errors]
              ELSE [ret EXCEPT !.at = "returned"]
    /\ UNCHANGED <<importVars, linkVars, taskVars, tempVars, call>>

\* _ontolex_etree_to_dict(root, language) is called.
InitOntolex ==
    /\ InitImportWith({<<cat>>}, {}, {None})
    /\ linking_jobs = <<>> /\ lpc = <<>> /\ lv = <<>> /\ backend = <<>>
    /\ executable = FALSE
    /\ NoTasks
    /\ NoTempFiles
    /\ call \in EntryDocs \cup LangDocs
    /\ ret = [at |-> "language", lexicon_lang |-> None, i |-> 1, errors |-> <<>>,
              entries |-> <<>>, heap |-> <<>>, error |-> <<>>]

NextOntolex ==
    \/ ResolveLanguage
    \/ ExtractNext
    \/ FinishExtraction

SpecOntolex == InitOntolex /\ [][NextOntolex]_vars

-----------------------------------------------------------------------------
(* Output of the local executable: _linking_from_naisc_executable, lines 295-345 *)

\* The most lines of the output of the executable.
MaxLines == 3

_RDF_EXPORT_BASE == "elexis:.#"

\* removeprefix(string): the string without _RDF_EXPORT_BASE at its start.
removeprefix(string) ==
    CASE string = "elexis:.#s1" -> "s1"
      [] string = "elexis:.#t2" -> "t2"
      [] OTHER -> string

\* sense_entry_mappings: the entry of every sense written to the two files.
sense_entry_mappings ==
    << [s1 |-> "e1", s2 |-> "e1", s3 |-> "e2"], [t1 |-> "f1", t2 |-> "f2"] >>

\* match_type = {...}[match_type]
MatchTypes ==
    [exactMatch |-> "exact", broadMatch |-> "broader", broader |-> "broader",
     narrowMatch |-> "narrower", narrower |-> "narrower", relatedMatch |-> "related"]

\* A line of proc.stdout.  "match": the pattern of line 315 matches the line
\* and left, pred, right, score are its groups.  "tabs": the pattern does not
\* match and the line is four fields with tabs between them.  "text": the
\* pattern does not match and the line holds no tab.  "blank": white space.
Line(fmt, left, pred, right) ==
    [fmt |-> fmt, left |-> left, pred |-> pred, right |-> right,
     score |-> IF fmt \in {"match", "tabs"} THEN "0.8000" ELSE None]

MatchLine(left, pred, right) == Line("match", left, pred, right)

WellFormedLines ==
    {MatchLine("s1", p, "t1") : p \in DOMAIN MatchTypes}
        \cup {MatchLine("s2", "exactMatch", "t1"), MatchLine("s3", "exactMatch", "t1"),
              MatchLine("s1", "exactMatch", "t2"), MatchLine("s3", "exactMatch", "t2"),
              MatchLine("elexis:.#s1", "exactMatch", "elexis:.#t2")}

NaiscLines ==
    WellFormedLines
        \cup {Line("blank", None, None, None), Line("text", None, None, None),
              Line("tabs", "s1", "exactMatch", "t1"),
              MatchLine("s1", "closeMatch", "t1"),
              MatchLine("sx", "exactMatch", "t1"),
              MatchLine("s1", "exactMatch", "tx")}

\* re.sub(pattern, r'\1\t\2\t\3\t\4', line).split('\t'): the groups of a line
\* that matches; a line that does not match is split as it is.
SplitLine(line) ==
    IF line.fmt \in {"match", "tabs"}
    THEN <<line.left, line.pred, line.right, line.score>>
    ELSE <<"text">>

\* float(score)
Float(score) == CASE score = "0.8000" -> "0.8" [] OTHER -> None

\* Lines 299-303: subprocess.run and the test of its return code and stderr.
RunExecutable ==
    /\ ret.at = "run"
    /\ IF call.returncode # 0 \/ call.stderr \in {"at java.base", "NullPointerException", "FAILED"}
       THEN ret' = [ret EXCEPT !.at = "raised", !.error = "Naisc errored"]
       ELSE ret' = [ret EXCEPT !.at = "lines"]
    /\ UNCHANGED <<importVars, linkVars, taskVars, tempVars, call>>

\* sense_links[(key)].append(link) on a defaultdict(list), which keeps its
\* keys in the order of their first use.
AppendLink(sense_links, s, t, link) ==
    IF \E k \in DOMAIN sense_links :
          sense_links[k].source_entry = s /\ sense_links[k].target_entry = t
    THEN [k \in DOMAIN sense_links |->
            IF sense_links[k].source_entry = s /\ sense_links[k].target_entry = t
            THEN [sense_links[k] EXCEPT !.linking = Append(@, link)]
            ELSE sense_links[k]]
    ELSE Append(sense_links, [source_entry |-> s, target_entry |-> t, linking |-> <<link>>])

\* An interpretation that starts a record with every line.
AppendLinkUngrouped(sense_links, s, t, link) ==
    Append(sense_links, [source_entry |-> s, target_entry |-> t, linking |-> <<link>>])

\* Lines 311-337: one line of the output.
InterpretLineWith(Add(_, _, _, _)) ==
    /\ ret.at = "lines"
    /\ IF ret.i > Len(call.stdout)
       THEN ret' = [ret EXCEPT !.at = "result"]
       ELSE LET line == call.stdout[ret.i]
                fields == SplitLine(line)
                left_id == removeprefix(fields[1])
                right_id == removeprefix(fields[3])
            IN  IF line.fmt = "blank" THEN ret' = [ret EXCEPT !.i = @ + 1]
                ELSE IF Len(fields) # 4
                THEN ret' = [ret EXCEPT !.at = "raised", !.error = "ValueError"]
                ELSE IF Float(fields[4]) = None
                THEN ret' = [ret EXCEPT !.at = "raised", !.error = "ValueError"]
                ELSE IF fields[2] \notin DOMAIN MatchTypes
                        \/ left_id \notin DOMAIN sense_entry_mappings[1]
                        \/ right_id \notin DOMAIN sense_entry_mappings[2]
                THEN ret' = [ret EXCEPT !.at = "raised", !.error = "KeyError"]
                ELSE ret' = [ret EXCEPT
                        !.i = @ + 1,
                        !.sense_links =
                            Add(@, sense_entry_mappings[1][left_id],
                                sense_entry_mappings[2][right_id],
                                [source_sense |-> left_id, target_sense |-> right_id,
                                 type |-> MatchTypes[fields[2]],
                                 score |-> Float(fields[4])])]
    /\ UNCHANGED <<importVars, linkVars, taskVars, tempVars, call>>

InterpretLineUngrouped == InterpretLineWith(AppendLinkUngrouped)

InterpretLine == InterpretLineWith(AppendLink)

\* Lines 340-345: the result as the linking API defines it.
ReturnResult ==
    /\ ret.at = "result"
    /\ ret' = [ret EXCEPT !.at = "returned", !.result = ret.sense_links]
    /\ UNCHANGED <<importVars, linkVars, taskVars, tempVars, call>>

\* The executable has ended with some return code, stderr and output.
InitNaisc ==
    /\ InitImportWith({<<cat>>}, {}, {None})
    /\ linking_jobs = <<>> /\ lpc = <<>> /\ lv = <<>> /\ backend = <<>>
    /\ executable = TRUE
    /\ NoTasks
    /\ NoTempFiles
    /\ call \in [returncode : {0, 1}, stderr : {"", "FAILED"},
                 stdout : SeqsUpTo(NaiscLines, MaxLines)]
    /\ ret = [at |-> "run", i |-> 1, sense_links |-> <<>>, result |-> None, error |-> ""]

NextNaisc ==
    \/ RunExecutable
    \/ InterpretLine
    \/ ReturnResult

SpecNaisc == InitNaisc /\ [][NextNaisc]_vars

-----------------------------------------------------------------------------
(* Submission: file_url_import, api_import (app/importing/router.py) and      *)
(* submit (app/linking/router.py), up to the first read of the handler       *)

\* The requests: two import submissions and one linking submission.
ImportRequests == {"j1", "j2"}
LinkRequests == {"l1"}
Requests == ImportRequests \cup LinkRequests

\* _file_import_queue, _api_import_queue and _linking_queue
Queues == {"file", "api", "linking"}

\* The queue an endpoint puts the id on: by the kind of the stored job.
QueueOf(r) ==
    IF r \in LinkRequests THEN "linking"
    ELSE IF import_jobs[r].kind = "api" THEN "api" ELSE "file"

InStore(r) ==
    IF r \in LinkRequests THEN r \in DOMAIN linking_jobs ELSE r \in DOMAIN import_jobs

\* await db.import_jobs.insert_one(job.dict()) with state=JobStatus.SCHEDULED,
\* or await db.linking_jobs.insert_one(job.dict(...)); the request ends with
\* an error when the insert raises.
InsertJob(r) ==
    /\ call[r].at = "received"
    /\ \E fault \in BOOLEAN :
          IF fault
          THEN /\ call' = [call EXCEPT ![r].at = "failed"]
               /\ UNCHANGED <<import_jobs, linking_jobs>>
          ELSE /\ call' = [call EXCEPT ![r].at = "stored"]
               /\ IF r \in LinkRequests
                  THEN /\ \E tgt \in {[id |-> SeedJob, endpoint |-> None],
                                      [id |-> RemoteDict, endpoint |-> RemoteEndpoint]} :
                             linking_jobs' = [k \in DOMAIN linking_jobs \cup {r} |->
                                                 IF k = r
                                                 THEN Submitted([id |-> SeedJob, endpoint |-> None], tgt)
                                                 ELSE linking_jobs[k]]
                       /\ UNCHANGED import_jobs
                  ELSE /\ \E rec \in {x \in JobRecord({None}) : x.api_key = "k1"} :
                             import_jobs' = [k \in DOMAIN import_jobs \cup {r} |->
                                                IF k = r THEN rec ELSE import_jobs[k]]
                       /\ UNCHANGED linking_jobs
    /\ UNCHANGED <<dicts, entry, upload, fileExists, pc, exc, obj, nextId,
                   lpc, lv, backend, executable, taskVars, tempVars, ret>>

\* An endpoint that puts the id on the queue as soon as the request is
\* received (the queue by the endpoint: an import request whose job is not
\* stored yet goes to the file queue).
EnqueueEarly(r) ==
    /\ call[r].at \in {"received", "stored"}
    /\ ~call[r].put
    /\ call' = [call EXCEPT ![r].put = TRUE]
    /\ queue' = [queue EXCEPT ![IF InStore(r) THEN QueueOf(r)
                                ELSE IF r \in LinkRequests THEN "linking" ELSE "file"]
                                  = Append(@, r)]
    /\ UNCHANGED <<importVars, linkVars, put, worker, procs, tempVars, ret>>

\* _file_import_queue.put(id), _api_import_queue.put(id), _linking_queue.put(job_id):
\* the statement after the insert.
Enqueue(r) ==
    /\ call[r].at = "stored"
    /\ ~call[r].put
    /\ call' = [call EXCEPT ![r].put = TRUE]
    /\ queue' = [queue EXCEPT ![QueueOf(r)] = Append(@, r)]
    /\ UNCHANGED <<importVars, linkVars, put, worker, procs, tempVars, ret>>

\* for arg in iter(queue.get, None): proc = Process(target=..., args=(arg,));
\* proc.start()
Spawn(q) ==
    /\ queue[q] # <<>>
    /\ q # "linking" =>
          Cardinality({p \in DOMAIN procs : procs[p].queue = q /\ procs[p].state # "ended"})
              < UPLOAD_N_WORKERS
    /\ procs' = Append(procs, [arg |-> Head(queue[q]), queue |-> q, state |-> "started"])
    /\ queue' = [queue EXCEPT ![q] = Tail(@)]
    /\ UNCHANGED <<importVars, linkVars, put, worker, tempVars, callVars>>

\* The first statement of the handler: find_one for the job id.  An import
\* handler goes on when the job is SCHEDULED and dies otherwise; the linking
\* handler reads again until it finds the job.
FirstRead(p) ==
    /\ procs[p].state = "started"
    /\ LET r == procs[p].arg
           seen == IF ~InStore(r) THEN "missing"
                   ELSE IF r \in LinkRequests THEN "found"
                   ELSE import_jobs[r].state
       IN  /\ ret' = [ret EXCEPT ![r] = IF @ = None THEN seen ELSE @]
           /\ procs' = [procs EXCEPT ![p].state =
                           IF seen \in {"found", SCHEDULED} THEN "read"
                           ELSE IF r \in LinkRequests THEN "started" ELSE "ended"]
    /\ UNCHANGED <<importVars, linkVars, queue, put, worker, tempVars, call>>

\* The handler ends: the update_one that writes DONE or ERROR to the import
\* job, or the state of the linking job in the finally clause.
HandlerEnds(p) ==
    /\ procs[p].state = "read"
    /\ procs' = [procs EXCEPT ![p].state = "ended"]
    /\ IF procs[p].arg \in LinkRequests
       THEN /\ \E st \in {COMPLETED, FAILED} :
                  linking_jobs' = [linking_jobs EXCEPT ![procs[p].arg].state = st]
            /\ UNCHANGED import_jobs
       ELSE /\ \E st \in {DONE, ERROR} :
                  import_jobs' = [import_jobs EXCEPT
                                     ![procs[p].arg].state = st,
                                     ![procs[p].arg].error = IF st = ERROR THEN "parse" ELSE ""]
            /\ UNCHANGED linking_jobs
    /\ UNCHANGED <<dicts, entry, upload, fileExists, pc, exc, obj, nextId,
                   lpc, lv, backend, executable, queue, put, worker, tempVars, callVars>>

\* The service after the seed import, its queues empty, and three requests
\* received.
InitSubmit ==
    /\ InitImportWith({<<cat>>}, {}, {None})
    /\ linking_jobs = <<>> /\ lpc = <<>> /\ lv = <<>> /\ backend = <<>>
    /\ executable = FALSE
    /\ queue = [q \in Queues |-> <<>>]
    /\ put = 0
    /\ worker = <<>>
    /\ procs = <<>>
    /\ NoTempFiles
    /\ call = [r \in Requests |-> [at |-> "received", put |-> FALSE]]
    /\ ret = [r \in Requests |-> None]

NextSubmit ==
    \/ \E r \in Requests : InsertJob(r)
    \/ \E r \in Requests : Enqueue(r)
    \/ \E q \in Queues : Spawn(q)
    \/ \E p \in DOMAIN procs : FirstRead(p)
    \/ \E p \in DOMAIN procs : HandlerEnds(p)

SpecSubmit == InitSubmit /\ [][NextSubmit]_vars

-----------------------------------------------------------------------------
(* Mirroring by concurrent linking jobs: _get_entries, lines 207-266 *)

\* The linking jobs whose child processes run _get_entries for the remote
\* dictionary; _linking_worker starts a process for every id it gets.
MirrorJobs == {"l1", "l2"}

\* source.entries: the origin entries the job asks for (none: all of them).
RequestedEntries == {<<>>, <<"o1">>, <<"o2", "o1">>, <<"o1", "o1">>}

\* The job is inside _get_entries.
Busy(l) == ret[l].at \notin {"queued", "returned", "raised"}

\* A step of job l to the locals new.  overlapped records that the step was
\* taken while another job was inside _get_entries.
MirrorStep(l, new) ==
    ret' = [ret EXCEPT ![l] =
               [new EXCEPT !.overlapped = @ \/ \E o \in MirrorJobs \ {l} : Busy(o)]]

MirrorRaise(l) == MirrorStep(l, [ret[l] EXCEPT !.at = "raised"])

\* Lines 238-243: db.dicts.find_one({'_origin_id': ..., '_origin_endpoint': ...})
FindMirrorDict(l) ==
    /\ ret[l].at = "queued"
    /\ \E fault \in BOOLEAN :
          LET found == MirrorsOf(RemoteDict, RemoteEndpoint)
          IN  IF fault THEN MirrorRaise(l)
              ELSE IF found # {}
              THEN MirrorStep(l, [ret[l] EXCEPT !.at = "list",
                                                !.our_dict_id = dicts[FirstOf(found)]._id])
              ELSE MirrorStep(l, [ret[l] EXCEPT !.at = "about"])
    /\ UNCHANGED <<importVars, linkVars, taskVars, tempVars, call>>

\* Lines 244-249: the about request and db.dicts.insert_one(dict_obj).
\* ($push makes the _entries array with the first entry; it is empty here.)
InsertMirrorDict(l) ==
    /\ ret[l].at = "about"
    /\ \E fault \in BOOLEAN :
          IF fault THEN MirrorRaise(l) /\ UNCHANGED <<dicts, nextId>>
          ELSE /\ dicts' = Append(dicts, [_id |-> Str(nextId), api_key |-> None,
                                          _origin_id |-> RemoteDict,
                                          _origin_endpoint |-> RemoteEndpoint,
                                          _entries |-> <<>>])
               /\ nextId' = nextId + 1
               /\ MirrorStep(l, [ret[l] EXCEPT !.at = "list", !.our_dict_id = Str(nextId)])
    /\ UNCHANGED <<entry, import_jobs, upload, fileExists, pc, exc, obj,
                   linkVars, taskVars, tempVars, call>>

\* The position after origin entry i: the next entry, or the return of the
\* new source (lines 260-266).
AfterEntry(locals) ==
    IF locals.i < Len(locals.origin_entry_ids)
    THEN [locals EXCEPT !.i = @ + 1, !.at = "find_entry"]
    ELSE [locals EXCEPT !.at = "returned"]

\* Lines 251-254: origin_entry_ids = source.entries, or the ids of the list
\* request when there are none.
ListOrigin(l) ==
    /\ ret[l].at = "list"
    /\ \E fault \in BOOLEAN :
          IF call[l].entries = <<>> /\ fault THEN MirrorRaise(l)
          ELSE MirrorStep(l, [ret[l] EXCEPT
                  !.at = "find_entry", !.i = 1,
                  !.origin_entry_ids = IF call[l].entries # <<>> THEN call[l].entries
                                       ELSE RemoteEntries])
    /\ UNCHANGED <<importVars, linkVars, taskVars, tempVars, call>>

\* A get_one_entry that never looks for the entry in the store.
FindEntryNever(l) ==
    /\ ret[l].at = "find_entry"
    /\ MirrorStep(l, [ret[l] EXCEPT !.at = "fetch"])
    /\ UNCHANGED <<importVars, linkVars, taskVars, tempVars, call>>

\* get_one_entry, lines 208-211: db.entry.find_one({'_origin_id': ..., '_dict_id': ...})
FindEntry(l) ==
    /\ ret[l].at = "find_entry"
    /\ \E fault \in BOOLEAN :
          LET found == MirroredEntry(entry, ret[l].origin_entry_ids[ret[l].i],
                                     ret[l].our_dict_id)
          IN  IF fault THEN MirrorRaise(l)
              ELSE IF found # {}
              THEN MirrorStep(l, AfterEntry([ret[l] EXCEPT
                      !.our_entry_ids = Append(@, Str(entry[FirstOf(found)]._id))]))
              ELSE MirrorStep(l, [ret[l] EXCEPT !.at = "fetch"])
    /\ UNCHANGED <<importVars, linkVars, taskVars, tempVars, call>>

\* get_one_entry, lines 213-222: the requests for the entry and its conversion.
FetchEntry(l) ==
    /\ ret[l].at = "fetch"
    /\ \E fault \in BOOLEAN :
          LET sent == [ret[l] EXCEPT !.requests = Append(@, ret[l].origin_entry_ids[ret[l].i])]
          IN  IF fault THEN MirrorStep(l, [sent EXCEPT !.at = "raised"])
              ELSE MirrorStep(l, [sent EXCEPT !.at = "insert"])
    /\ UNCHANGED <<importVars, linkVars, taskVars, tempVars, call>>

\* get_one_entry, lines 223-227: db.entry.insert_one(entry_obj)
InsertMirrored(l) ==
    /\ ret[l].at = "insert"
    /\ \E fault \in BOOLEAN :
          IF fault THEN MirrorRaise(l) /\ UNCHANGED <<entry, nextId>>
          ELSE /\ entry' = Append(entry, [_id |-> nextId, _dict_id |-> ret[l].our_dict_id,
                                          _origin_id |-> ret[l].origin_entry_ids[ret[l].i]])
               /\ nextId' = nextId + 1
               /\ MirrorStep(l, [ret[l] EXCEPT !.at = "push",
                                               !.inserted = Append(@, nextId)])
    /\ UNCHANGED <<dicts, import_jobs, upload, fileExists, pc, exc, obj,
                   linkVars, taskVars, tempVars, call>>

\* get_one_entry, lines 228-230: db.dicts.update_one(..., {'$push': {'_entries': our_entry_id}})
PushEntry(l) ==
    /\ ret[l].at = "push"
    /\ \E fault \in BOOLEAN :
          LET our_entry_id == Str(ret[l].inserted[Len(ret[l].inserted)])
          IN  IF fault THEN MirrorRaise(l) /\ UNCHANGED dicts
              ELSE /\ dicts' = [i \in DOMAIN dicts |->
                                   IF dicts[i]._id = ret[l].our_dict_id
                                   THEN [dicts[i] EXCEPT !._entries = Append(@, our_entry_id)]
                                   ELSE dicts[i]]
                   /\ MirrorStep(l, AfterEntry([ret[l] EXCEPT
                           !.our_entry_ids = Append(@, our_entry_id)]))
    /\ UNCHANGED <<entry, import_jobs, upload, fileExists, pc, exc, obj, nextId,
                   linkVars, taskVars, tempVars, call>>

\* Two linking jobs with the remote dictionary as their source have been
\* started; the store is as the seed import left it.
InitMirror ==
    /\ InitImportWith({<<cat>>}, {}, {None})
    /\ linking_jobs = <<>> /\ lpc = <<>> /\ lv = <<>> /\ backend = <<>>
    /\ executable = FALSE
    /\ NoTasks
    /\ NoTempFiles
    /\ call \in [MirrorJobs -> [entries : RequestedEntries]]
    /\ ret = [l \in MirrorJobs |->
                 [at |-> "queued", our_dict_id |-> None, origin_entry_ids |-> <<>>,
                  i |-> 0, our_entry_ids |-> <<>>, requests |-> <<>>,
                  inserted |-> <<>>, overlapped |-> FALSE]]

NextMirror ==
    \/ \E l \in MirrorJobs : FindMirrorDict(l)
    \/ \E l \in MirrorJobs : InsertMirrorDict(l)
    \/ \E l \in MirrorJobs : ListOrigin(l)
    \/ \E l \in MirrorJobs : FindEntry(l)
    \/ \E l \in MirrorJobs : FetchEntry(l)
    \/ \E l \in MirrorJobs : InsertMirrored(l)
    \/ \E l \in MirrorJobs : PushEntry(l)

SpecMirror == InitMirror /\ [][NextMirror]_vars

-----------------------------------------------------------------------------
(* Imports and mirror fetches on one store, one handler at a time *)

\* Import job j is inside its handler.
Importing(j) == pc[j] \notin {"queued", "done", "crashed"}

\* No handler is running: every job is waiting or has ended.
Quiet ==
    /\ \A j \in Jobs : ~Importing(j)
    /\ \A l \in MirrorJobs : ~Busy(l)

\* Import "j1" of the owner of SeedJob's dictionary (from a file, a URL or
\* the remote service; a new dictionary or the replacement of SeedJob's) and
\* two linking jobs with the remote dictionary as their source have been
\* submitted.
InitBook ==
    /\ InitImportWith(FewFiles, {"j1"}, {None, SeedJob})
    /\ upload[SeedJob] = <<cat>>
    /\ import_jobs["j1"].api_key = "k1"
    /\ linking_jobs = <<>> /\ lpc = <<>> /\ lv = <<>> /\ backend = <<>>
    /\ executable = FALSE
    /\ NoTasks
    /\ NoTempFiles
    /\ call \in [MirrorJobs -> [entries : RequestedEntries]]
    /\ ret = [l \in MirrorJobs |->
                 [at |-> "queued", our_dict_id |-> None, origin_entry_ids |-> <<>>,
                  i |-> 0, our_entry_ids |-> <<>>, requests |-> <<>>,
                  inserted |-> <<>>, overlapped |-> FALSE]]

\* A handler is started only when no other handler is running, and runs to
\* its end before the next is started.
ImportAlone ==
    /\ \A l \in MirrorJobs : ~Busy(l)
    /\ NextImport
    /\ \E j \in Jobs : (\A o \in Jobs \ {j} : ~Importing(o)) /\ pc'[j] # pc[j]
    /\ UNCHANGED <<linkVars, taskVars, tempVars, callVars>>

MirrorAlone ==
    /\ \A j \in Jobs : ~Importing(j)
    /\ NextMirror
    /\ \E l \in MirrorJobs : (\A o \in MirrorJobs \ {l} : ~Busy(o)) /\ ret'[l] # ret[l]

NextBook ==
    \/ ImportAlone
    \/ MirrorAlone

SpecBook == InitBook /\ [][NextBook]_vars

-----------------------------------------------------------------------------
(* Properties of the import pipeline *)

Ended(j) == pc[j] \in {"done", "crashed"}

\* The store before any new job ran: what import SeedJob left.
OldDicts == <<SeedDict(upload[SeedJob])>>
OldEntries == SeedEntries(upload[SeedJob])

\* C1: once a job's stored state is DONE or ERROR, no later step writes a
\* different state (in particular DONE is never followed by ERROR).
C1_StateIsTerminal ==
    [][\A j \in Jobs :
          import_jobs[j].state \in {DONE, ERROR}
              => import_jobs'[j].state = import_jobs[j].state]_importVars

\* The steps C2 names: download, canonicalization and overlay (or the remote
\* fetch), ownership check, identifier transfer, delete / insert.
RaisingSteps ==
    {"download", "parse", "fetch", "find_one", E403, "find",
     "No entries in dictionary", "delete_many", "delete_one", "insert_many",
     "DuplicateKeyError", "insert_one"}

NotOwned(j) ==
    /\ import_jobs[j].dict_id # None
    /\ \A i \in DOMAIN OldDicts :
          ~(/\ OldDicts[i]._id = import_jobs[j].dict_id
            /\ OldDicts[i].api_key = import_jobs[j].api_key)

StoreUntouched == dicts = OldDicts /\ entry = OldEntries

KeyAt(file, i) ==
    <<file[i].lemma, file[i].partOfSpeech,
      Cardinality({k \in 1..i : file[k] = file[i]})>>

\* The job replaced the seed dictionary and wrote DONE.
Replaced(j) ==
    /\ j # SeedJob
    /\ import_jobs[j].dict_id = SeedJob
    /\ import_jobs[j].state = DONE

\* C4: after a replace, the i-th new entry is stored with the id of the old
\* entry that has the same (lemma, partOfSpeech, n) key, if there is one, and
\* with an id no old entry had otherwise.  (The old entries are those of the
\* seed file, stored in file order with ids 1..Len.)
C4_IdentifierContinuity ==
    \A j \in Jobs :
        Replaced(j) =>
            LET old    == upload[SeedJob]
                new    == upload[j]
                stored == FindByDict(entry, SeedJob)
            IN  /\ Len(stored) = Len(new)
                /\ \A i \in DOMAIN new :
                      /\ stored[i].lemma = new[i].lemma
                      /\ stored[i].partOfSpeech = new[i].partOfSpeech
                      /\ \A m \in DOMAIN old :
                            KeyAt(old, m) = KeyAt(new, i) => stored[i]._id = m
                      /\ (\A m \in DOMAIN old : KeyAt(old, m) # KeyAt(new, i))
                            => stored[i]._id \notin DOMAIN old

C4_Witness ==
    \E j \in Jobs :
        /\ Replaced(j)
        /\ Len(upload[j]) = 2 /\ Len(upload[SeedJob]) = 2
        /\ \E i \in DOMAIN upload[j] :
              FindByDict(entry, SeedJob)[i]._id \in DOMAIN upload[SeedJob]
        /\ \E i \in DOMAIN upload[j] :
              FindByDict(entry, SeedJob)[i]._id \notin DOMAIN upload[SeedJob]

\* No other import job names dictionary d as the one it writes.
NoRival(j, d) == \A k \in Jobs \ {j, SeedJob} : TargetId(k) # d

DictsWithId(d) == {i \in DOMAIN dicts : dicts[i]._id = d}

OtherDicts(coll, d) == SelectSeqBy(coll, {x \in Range(coll) : x._id = d})
OtherEntries(coll, d) == SelectSeqBy(coll, {x \in Range(coll) : x._dict_id = d})

Created(j) ==
    /\ j # SeedJob
    /\ import_jobs[j].dict_id = None
    /\ import_jobs[j].state = DONE

\* C6: a job without a target that ends DONE has created the dictionary whose
\* id is the job's id; no step of such a job changes the record or an entry of
\* another dictionary; two such jobs (of the same file or not) leave two
\* dictionaries with different ids and disjoint entry ids.
C6_CreateIsIndependent ==
    /\ [](\A j \in Jobs :
            Created(j) =>
                /\ Cardinality(DictsWithId(j)) = 1
                /\ \A i \in DictsWithId(j) : dicts[i].src = j
                /\ Len(FindByDict(entry, j)) = Len(upload[j])
                /\ \A k \in Jobs \ {j} :
                      Created(k) =>
                          Ids(FindByDict(entry, j)) \cap Ids(FindByDict(entry, k)) = {})
    /\ [][\A j \in Jobs :
            (import_jobs[j].dict_id = None /\ pc'[j] # pc[j])
                => /\ OtherDicts(dicts', j) = OtherDicts(dicts, j)
                   /\ OtherEntries(entry', j) = OtherEntries(entry, j)]_importVars

C6_Witness ==
    \E j, k \in Jobs :
        /\ j # k
        /\ Created(j) /\ Created(k)
        /\ upload[j] = upload[k]
        /\ DictsWithId(j) # {} /\ DictsWithId(k) # {}

\* C7: for the dictionary id D, the store holds either the complete old
\* dictionary (record and exactly the old entries) or a complete new one
\* (record of an import and exactly that import's entries).
CompleteDict(d, j) ==
    LET stored == FindByDict(entry, d)
    IN  /\ \E i \in DictsWithId(d) :
             /\ dicts[i].src = j
             /\ dicts[i]._entries = [k \in DOMAIN stored |-> stored[k]._id]
        /\ Cardinality(DictsWithId(d)) = 1
        /\ Len(stored) = Len(upload[j])
        /\ \A k \in DOMAIN stored :
              /\ stored[k].src = j
              /\ stored[k].lemma = upload[j][k].lemma
              /\ stored[k].partOfSpeech = upload[j][k].partOfSpeech

C7_ReplaceIsAtomic == \E j \in Jobs : CompleteDict(SeedJob, j)

-----------------------------------------------------------------------------
(* Properties of the linking orchestrator *)

Returned(l) == lpc[l] = "returned"

\* The job went through the submit request of the remote REST backend.
OnRestPath(l) == lv[l].remote_task_id # None

\* C8: when process_linking_job has returned, the stored state is COMPLETED
\* or FAILED; it is FAILED if a step raised; it is COMPLETED only if no step
\* raised and, on the REST path, the backend's task ended COMPLETED.
C8_ReturnsTerminal ==
    \A l \in LinkIds :
        Returned(l) =>
            /\ LinkJob(l).state \in {COMPLETED, FAILED}
            /\ lv[l].exc # "" => LinkJob(l).state = FAILED
            /\ LinkJob(l).state = COMPLETED =>
                  /\ lv[l].exc = ""
                  /\ OnRestPath(l) => backend[l].state = COMPLETED

C8_Witness ==
    \E l \in LinkIds :
        /\ Returned(l)
        /\ OnRestPath(l)
        /\ LinkJob(l).state = COMPLETED
        /\ backend[l].payload # <<>>

\* C9: after a linking job failed because a step raised, its stored result is
\* an empty list and the result endpoint returns an empty list.
C9_FailedResultIsEmptyList ==
    \A l \in LinkIds :
        (Returned(l) /\ lv[l].exc # "") =>
            /\ LinkJob(l).our_result = List(<<>>)
            /\ result(l) = [code |-> 200, body |-> List(<<>>)]

\* Source and target are dictionaries of this service and the backend is the
\* remote REST service.
LocalOverRest(l) ==
    /\ LinkJob(l).source.endpoint = None
    /\ LinkJob(l).target.endpoint = None
    /\ LinkJob(l).target.id # BABELNET_ID
    /\ ~executable

\* Every status poll before the final write returns PROCESSING.
ProcessingUntilWritten(l) ==
    ~Returned(l) => status(l) = [code |-> 200, body |-> DefaultStatus]

RemoteSource(l) == LinkJob(l).source.endpoint # None
RemoteTarget(l) == LinkJob(l).target.endpoint # None

OriginIds == Range(RemoteEntries)

\* C11: when the source (target) of a linking job named a remote endpoint,
\* every record of the result served for the job has the origin id of the
\* mirrored entry as its source_entry (target_entry), and the entries are in
\* the store, tagged with their origin ids, before the backend is called.
C11_ServedOriginIds ==
    \A l \in LinkIds :
        /\ (lpc[l] \in {"poll", "result", "remap"} /\ RemoteSource(l))
              => \A o \in OriginIds : MirroredEntry(entry, o, lv[l].source.id) # {}
        /\ (Returned(l) /\ result(l).code = 200 /\ result(l).body.kind = "list")
              => \A i \in DOMAIN result(l).body.items :
                    /\ RemoteSource(l) => result(l).body.items[i].source_entry \in OriginIds
                    /\ RemoteTarget(l) => result(l).body.items[i].target_entry \in OriginIds

\* C12: when a side of the job was a remote-origin mirror, the job document
\* written at the end holds our_result with the local ids the backend
\* produced and origin_result with the origin ids on the mirrored sides;
\* the conversion leaves our_result as the backend produced it.
C12_TwoResultViews ==
    \A l \in LinkIds :
        (Returned(l) /\ LinkJob(l).state = COMPLETED /\ (RemoteSource(l) \/ RemoteTarget(l)))
            => /\ LinkJob(l).our_result = List(lv[l].result)
               /\ LinkJob(l).origin_result.kind = "list"
               /\ \A i \in DOMAIN LinkJob(l).origin_result.items :
                     /\ RemoteSource(l) =>
                           LinkJob(l).origin_result.items[i].source_entry \in OriginIds
                     /\ RemoteTarget(l) =>
                           LinkJob(l).origin_result.items[i].target_entry \in OriginIds

Http(l) == lv[l].http

\* The handler ran to its end on the remote REST path and no step raised.
RestRunCompleted(l) == Returned(l) /\ lv[l].exc = "" /\ OnRestPath(l)

\* C16: on the remote REST path the requests of one job are one submit, then
\* status requests carrying the task id that submit returned, then one result
\* request carrying it; the result request comes only after a status reply of
\* COMPLETED or FAILED and no status request follows it; after a status reply
\* of PROCESSING the job's next request is another status request; a run in
\* which no step raises has made one submit, at least one status and one
\* result request.
C16_RequestOrder ==
    /\ [](\A l \in LinkIds :
            /\ Http(l).submit <= 1 /\ Http(l).result <= 1
            /\ (Http(l).status > 0 \/ Http(l).result > 0)
                  => Http(l).submit = 1 /\ lv[l].remote_task_id = TaskId
            /\ Http(l).ids \subseteq {TaskId}
            /\ Http(l).result = 1
                  => Http(l).status >= 1 /\ Http(l).last \in {COMPLETED, FAILED}
            /\ (Http(l).last = PROCESSING /\ lv[l].exc = "") => lpc[l] = "poll"
            /\ RestRunCompleted(l)
                  => Http(l).submit = 1 /\ Http(l).status >= 1 /\ Http(l).result = 1)
    /\ [][\A l \in LinkIds :
            Http(l).result = 1
                => lv'[l].http.status = Http(l).status /\ lpc'[l] # "poll"]_vars

C16_Witness ==
    \E l \in LinkIds :
        /\ RestRunCompleted(l)
        /\ Http(l).status = MaxPolls
        /\ Http(l).result = 1
        /\ LinkJob(l).state = COMPLETED

\* C17: one backend per job.  A job whose target id is 'babelnet' sends its
\* requests to the BabelNet url and never runs the executable, configured or
\* not; another job runs the executable and sends no request when one is
\* configured, and sends its requests to the Naisc url when none is.
C17_BackendSelection ==
    \A l \in LinkIds :
        /\ LinkJob(l).target.id = BABELNET_ID
              => /\ ~lv[l].ran_executable
                 /\ Http(l).urls \subseteq {LINKING_BABELNET_URL}
                 /\ (Returned(l) /\ lv[l].exc = "") => Http(l).submit = 1
        /\ (LinkJob(l).target.id # BABELNET_ID /\ executable)
              => /\ Http(l).urls = {}
                 /\ Http(l).submit = 0 /\ Http(l).status = 0 /\ Http(l).result = 0
                 /\ (Returned(l) /\ lv[l].exc = "") => lv[l].ran_executable
        /\ (LinkJob(l).target.id # BABELNET_ID /\ ~executable)
              => /\ ~lv[l].ran_executable
                 /\ Http(l).urls \subseteq {LINKING_NAISC_URL}
                 /\ (Returned(l) /\ lv[l].exc = "") => Http(l).submit = 1

C17_Witness ==
    \E l \in LinkIds :
        /\ Returned(l) /\ lv[l].exc = ""
        /\ LinkJob(l).target.id = BABELNET_ID
        /\ executable
        /\ Http(l).urls = {LINKING_BABELNET_URL}
        /\ Http(l).result = 1

-----------------------------------------------------------------------------
(* Further properties of the import pipeline *)

\* Job j is a replace of dictionary SeedJob by its owner that ended DONE.
OwnerReplaceDone(j) ==
    /\ j # SeedJob
    /\ Job(j).dict_id = SeedJob
    /\ Job(j).api_key = SeedDict(upload[SeedJob]).api_key
    /\ Ended(j)
    /\ Job(j).state = DONE

\* Everything stored under dictionary id d was written by import w.
AllFrom(d, w) ==
    /\ \A i \in DictsWithId(d) : dicts[i].src = w
    /\ Cardinality(DictsWithId(d)) = 1
    /\ \A i \in DOMAIN entry : entry[i]._dict_id = d => entry[i].src = w
    /\ Len(FindByDict(entry, d)) = Len(upload[w])

\* C18: after two concurrent replace imports of one dictionary by its owner
\* have both ended (here: both ended DONE), the dictionary record and all the
\* entries under that id come from a single one of the two imports.
C18_LastWriterWins ==
    \A j, k \in Jobs :
        (j # k /\ OwnerReplaceDone(j) /\ OwnerReplaceDone(k))
            => AllFrom(SeedJob, j) \/ AllFrom(SeedJob, k)

\* C20: with removal on success and on failure enabled, when the file import
\* handler of a job has ended, on whatever path, the staged or downloaded
\* file of the job no longer exists.
C20_StagedFileRemoved ==
    (UPLOAD_REMOVE_ON_SUCCESS /\ UPLOAD_REMOVE_ON_FAILURE)
        => \A j \in Jobs \ {SeedJob} :
              (Ended(j) /\ Job(j).kind \in {"file", "url"}) => ~fileExists[j]

-----------------------------------------------------------------------------
(* Properties of the job dispatcher *)

Alive == {p \in DOMAIN procs : procs[p].state = "alive"}

\* The number of child processes started for job id i.
Runs(i) == Cardinality({p \in DOMAIN procs : procs[p].arg = i})

InQueue(i) == Cardinality({k \in DOMAIN queue : queue[k] = i})

\* The number of worker threads that hold id i and have not started its child.
Held(i) == Cardinality({w \in Workers : worker[w].at = "start" /\ worker[w].arg = i})

\* C13: a child that has not completed within the timeout is killed before
\* its worker takes the next job id, so that no child a worker started
\* earlier is alive once the worker holds its next id, and at most n_workers
\* children are alive.
C13_TimedOutChildKilled ==
    /\ \A w \in Workers :
          worker[w].at = "start"
              => \A p \in DOMAIN procs : procs[p].worker = w => procs[p].state # "alive"
    /\ Cardinality(Alive) <= UPLOAD_N_WORKERS

\* C14: every job id put on the queue is handed to the handler once: it is
\* on the queue, or held by one worker, or one child has been started for
\* it, never two of these and never none; and the only step that makes the
\* queue longer is the put of a new id.
C14_ExactlyOncePerEnqueue ==
    /\ [](\A i \in 1..put : InQueue(i) + Held(i) + Runs(i) = 1)
    /\ [][Len(queue') > Len(queue)
             => put' = put + 1 /\ queue' = Append(queue, put')]_vars

C14_Witness ==
    /\ put = MaxJobs
    /\ \A i \in 1..put : Runs(i) = 1
    /\ \E p \in DOMAIN procs : procs[p].state = "failed"
    /\ \E p \in DOMAIN procs : procs[p].state = "alive" /\ worker[procs[p].worker].proc # p
    /\ \A w \in Workers : worker[w].at = "get"

\* C15: no outcome of a child (exit code 0, failure, timeout) ends a worker
\* thread, and under fair scheduling every job id put on the queue is
\* eventually dispatched to a child process.
C15_EveryIdDispatched ==
    /\ [](\A w \in Workers : worker[w].at \in {"get", "start", "join"})
    /\ \A i \in 1..MaxJobs : (InQueue(i) > 0) ~> (Runs(i) > 0)

\* The last id has been dispatched by a worker whose earlier children failed
\* or outlived the timeout.
C15_Witness ==
    /\ Runs(MaxJobs) > 0
    /\ \E p, q \in DOMAIN procs :
          /\ procs[p].state = "failed"
          /\ procs[q].state = "alive" /\ worker[procs[q].worker].proc # q
          /\ procs[p].worker = procs[q].worker
          /\ \E r \in DOMAIN procs : r > p /\ r > q /\ procs[r].worker = procs[p].worker

-----------------------------------------------------------------------------
(* Properties of the temporary files *)

\* The job is between two functions that make temporary files, or past them.
NoFunctionRunning ==
    \/ tf.at \in {"returned", "raised"}
    \/ tf.at \in {"lookup", "request", "convert", "insert"}
    \/ tf.at = "create" /\ tf.side = 1

\* C19: on every exit path of _linking_from_naisc_executable and of
\* response_to_entry_obj, no temporary file that the function created exists
\* when it has returned or raised.
C19_TempFilesRemoved == NoFunctionRunning => disk = {}

-----------------------------------------------------------------------------
(* Diagnostics of failed jobs *)

\* C21: every import job in state ERROR has a non-empty stored error text, and
\* every linking job in state FAILED has a non-empty stored message, also when
\* the job is FAILED because the status reply of the remote service said so.
C21_FailureCarriesMessage ==
    /\ \A j \in Jobs :
          import_jobs[j].state = ERROR => import_jobs[j].error # ""
    /\ \A l \in DOMAIN linking_jobs :
          linking_jobs[l].state = FAILED => linking_jobs[l].message # ""

-----------------------------------------------------------------------------
(* Dictionaries that are not here *)

\* The reference names no endpoint and no dictionary of this service.
MissingHere(ref) ==
    /\ ref.endpoint = None
    /\ \A i \in DOMAIN OldDicts : OldDicts[i]._id # ref.id

\* The submitted job cannot be served from local data.
NotFoundHere(l) ==
    \/ MissingHere(linking_jobs[l].source)
    \/ linking_jobs[l].target.id # BABELNET_ID /\ MissingHere(linking_jobs[l].target)

\* C30: when the source names no endpoint and no local dictionary, or the
\* target (other than BabelNet) does, the job ends FAILED, and up to then no
\* remote dictionary or entry is mirrored, the executable is not run and no
\* submit request is sent.
C30_NotFoundFailsBeforeWork ==
    \A l \in LinkIds :
        NotFoundHere(l)
            => /\ dicts = OldDicts
               /\ entry = OldEntries
               /\ ~lv[l].ran_executable
               /\ Http(l).submit = 0
               /\ backend[l].state = "idle"
               /\ Returned(l) => linking_jobs[l].state = FAILED

\* A job with a remote source and a missing local target has failed on the
\* lookup of the target.
C30_Witness ==
    \E l \in LinkIds :
        /\ Returned(l)
        /\ linking_jobs[l].source.endpoint = RemoteEndpoint
        /\ MissingHere(linking_jobs[l].target)
        /\ linking_jobs[l].target.id # BABELNET_ID
        /\ lv[l].exc = "Dictionary not found here"
        /\ linking_jobs[l].state = FAILED

-----------------------------------------------------------------------------
(* The job-load loop *)

\* C29: the loop that re-reads the job document is bounded: the orchestrator
\* leaves it after finitely many reads, also when the document never becomes
\* visible.
C29_LoadLoopEnds == \A l \in LinkIds : <>(lpc[l] # "queued")

-----------------------------------------------------------------------------
(* Properties of the linking worker thread *)

\* C28: linking jobs are run by a fixed pool of workers, one job per worker
\* at a time and each under a timeout that stops the child: the number of
\* linking children alive at once is at most settings.LINKING_N_WORKERS.
C28_LinkingPoolBounded == Cardinality(Alive) <= LINKING_N_WORKERS

-----------------------------------------------------------------------------
(* Properties of the dictionary metadata *)

\* C22: for each of release, sourceLanguage and genre, the value that about
\* returns for the imported dictionary is the file's value when the file
\* specifies the field, whatever the job supplies, and the job's value only
\* when the file does not specify it.
C22_FileMetaWins ==
    ret.at = "served"
        => \A k \in MetaFields :
              ret.about[k] = IF call.file[k] # None THEN call.file[k] ELSE call.meta[k]

-----------------------------------------------------------------------------
(* Properties of the import from a remote service *)

\* The items of the remote list whose release is one of rs.
Listed(rs) == {k \in DOMAIN call.entries_list : call.entries_list[k] \in rs}

\* C26: an entry is fetched only if the remote list reports its release as
\* PUBLIC: no request is sent and no entry is stored for any other item, and
\* the number of entries stored is the number of items reported PUBLIC.
C26_OnlyReportedPublicFetched ==
    /\ Range(ret.requests) \subseteq Listed({"PUBLIC"})
    /\ Range(ret.stored) \subseteq Listed({"PUBLIC"})
    /\ ret.at = "done" => Len(ret.stored) = Cardinality(Listed({"PUBLIC"}))

\* C26, as the code has it: an entry is fetched unless the remote list
\* reports a release other than PUBLIC for it; an item without a release
\* counts as PUBLIC.
C26_NonPublicNeverFetched ==
    /\ Range(ret.requests) \subseteq Listed({"PUBLIC", None})
    /\ Range(ret.stored) \subseteq Listed({"PUBLIC", None})
    /\ ret.at = "done" => Len(ret.stored) = Cardinality(Listed({"PUBLIC", None}))

\* An import is done whose list held a PRIVATE item, one reported PUBLIC and
\* one without a release.
C26_Witness ==
    /\ ret.at = "done"
    /\ Listed({"PRIVATE"}) # {}
    /\ Listed({"PUBLIC"}) # {}
    /\ Listed({None}) # {}
    /\ Len(ret.stored) = 2

-----------------------------------------------------------------------------
(* Properties of the format negotiation *)

\* The formats of the requests sent for the current origin entry, in order.
Asked == [k \in DOMAIN tf.requests |-> tf.requests[k].fmt]

\* Every format was asked for and every response was an error.
AllFormatsFailed ==
    /\ Len(tf.requests) = Len(Formats)
    /\ \A k \in DOMAIN tf.requests : tf.requests[k].is_error

\* C27: for an origin entry that is not mirrored yet the formats are asked
\* for in the order json, ontolex, tei; the first response that is no error
\* ends the asking and its format is the one converted; and when all three
\* responses are errors the entry is not inserted and the job fails.
C27_FormatNegotiation ==
    /\ Asked = SubSeq(Formats, 1, Len(tf.requests))
    /\ \A k \in DOMAIN tf.requests : k < Len(tf.requests) => tf.requests[k].is_error
    /\ tf.used # None
          => /\ ~tf.requests[Len(tf.requests)].is_error
             /\ tf.used = Asked[Len(tf.requests)]
    /\ \A r \in tf.inserted : r.fmt \in Range(Formats)
    /\ AllFormatsFailed
          => /\ tf.at = "raised"
             /\ tf.raised = "No suitable format"
             /\ \A r \in tf.inserted : r.entry # tf.cur

\* The first origin entry was inserted from the ontolex response after json
\* was refused, and the job has failed on the second one, for which json,
\* ontolex and tei were asked for and refused.
C27_Witness ==
    /\ AllFormatsFailed
    /\ tf.at = "raised"
    /\ Asked = Formats
    /\ tf.inserted = {[entry |-> 1, fmt |-> "ontolex"]}

-----------------------------------------------------------------------------
(* Properties of the extraction of an OntoLex document *)

\* The language of the lexicon has been resolved and the loop over the entry
\* elements has ended.
Extracted == ret.at = "returned" \/ (ret.at = "raised" /\ ret.lexicon_lang # None)

\* What entry element i gives by itself, with the resolved lexicon language.
Alone(i) == ExtractEntry(call, i, ret.lexicon_lang, <<>>)

Extracts(i) == Alone(i).err = ""

\* Origin and lemma of each entry of a list.
Brief(entries) == [k \in DOMAIN entries |-> <<entries[k].origin_id, entries[k].lemma>>]

FirstN(seq, n) == SubSeq(seq, 1, IF Len(seq) < n THEN Len(seq) ELSE n)

\* C23: the list of captured error messages never holds more than the cap;
\* when at least one entry element extracts, the extraction returns, and its
\* entries are the copies of the extractable elements in document order,
\* whatever failing elements stand before, between or after them; when none
\* extracts, it raises an error that carries the captured messages.
C23_BestEffort ==
    /\ Len(ret.errors) <= MaxErrors
    /\ ret.at = "returned"
          => /\ \E i \in DOMAIN call.entries : Extracts(i)
             /\ Brief(ret.entries) =
                   Flatten([i \in DOMAIN call.entries |->
                               IF Extracts(i) THEN Brief(Alone(i).entries) ELSE <<>>])
    /\ ret.at = "raised" /\ ret.lexicon_lang # None
          => /\ \A i \in DOMAIN call.entries : ~Extracts(i)
             /\ ret.error = <<"No valid entries found">> \o
                   FirstN([i \in DOMAIN call.entries |-> Alone(i).err], MaxErrors)

\* The extraction has returned the copies of the second of three entry
\* elements; the first and the third have failed.
C23_Witness ==
    /\ ret.at = "returned"
    /\ Len(call.entries) = 3
    /\ ~Extracts(1) /\ Extracts(2) /\ ~Extracts(3)
    /\ Len(ret.errors) = 2
    /\ Len(ret.entries) = 2

\* The headwords of entry element i: the texts of its canonical-form written
\* representations in the language of the lexicon.
Headwords(i) ==
    remove_empty_keys(WrittenRep(call, call.entries[i], ret.lexicon_lang))[ret.lexicon_lang]

CopiesOf(i) == SelectSeq(ret.entries, LAMBDA c : c.origin_id = i)

\* C24: a surviving entry gives one output entry for each distinct headword
\* among its written representations in the language of the lexicon; each
\* copy has its headword as lemma and the one-element list of it as written
\* representation in that language, everything else as in the original; and
\* no two output entries share a canonical form.
C24_OneCopyPerDistinctHeadword ==
    ret.at = "returned"
        => /\ \A i \in DOMAIN call.entries :
                 Extracts(i)
                     => /\ Len(CopiesOf(i)) = Cardinality(Range(Headwords(i)))
                        /\ {c.lemma : c \in Range(CopiesOf(i))} = Range(Headwords(i))
                        /\ \A c \in Range(CopiesOf(i)) :
                              /\ ret.heap[c.canonicalForm][ret.lexicon_lang] = <<c.lemma>>
                              /\ \A l \in LangKeys \ {ret.lexicon_lang} :
                                    ret.heap[c.canonicalForm][l] =
                                        remove_empty_keys(WrittenRep(call, call.entries[i],
                                                                     ret.lexicon_lang))[l]
                              /\ c.language = Alone(i).entries[1].language
           /\ \A j, k \in DOMAIN ret.entries :
                 j # k => ret.entries[j].canonicalForm # ret.entries[k].canonicalForm

\* C25: the language of the lexicon is the caller's language if one is given;
\* else that of the nearest xml:lang attribute of the lexicon element; else
\* that of the first language element outside the entries; else the xml:lang
\* value that is most frequent in the document; and when none of them gives a
\* language, the extraction fails before any entry is looked at.
C25_LanguagePrecedence ==
    ret.at # "language"
        => LET k == FirstOutside(call.language_els)
           IN  IF Truthy(call.language)
               THEN ret.lexicon_lang = to_iso639(call.language)
               ELSE IF Truthy(call.lexicon_attr)
               THEN ret.lexicon_lang = to_iso639(call.lexicon_attr)
               ELSE IF k # 0 /\ Truthy(call.language_els[k].text)
               THEN ret.lexicon_lang = to_iso639(call.language_els[k].text)
               ELSE IF XmlLangAttrs(call) # <<>>
               THEN ret.lexicon_lang = infer_lang_from_entries(call)
               ELSE /\ ret.at = "raised"
                    /\ ret.error = <<"Need language for the dictionary">>
                    /\ ret.i = 1

\* The caller gave no language, the lexicon element has no xml:lang, the one
\* language element with a text stands inside an entry, and the extraction
\* has returned with the most frequent xml:lang value, which is not the first.
C25_Witness ==
    /\ ret.at = "returned"
    /\ call.language = None
    /\ call.lexicon_attr = None
    /\ call.language_els = <<[text |-> "en", in_entry |-> TRUE], [text |-> "", in_entry |-> FALSE]>>
    /\ XmlLangAttrs(call) = <<"en", "sl", "sl">>
    /\ ret.lexicon_lang = "sl"

-----------------------------------------------------------------------------
(* Properties of a handler invoked for a job that is not SCHEDULED *)

\* The handler of job j has not passed its precondition check, and the
\* stored state of the job is not SCHEDULED.
Stale(j) == pc[j] \in {"queued", "crashed"} /\ Job(j).state # SCHEDULED

\* C31: a handler invoked for a job whose stored state is not SCHEDULED
\* stops at its precondition check: its only step is the one that ends it,
\* and that step leaves the job records, the files, the dictionaries and the
\* entries as they are; the job record is never written afterwards either.
C31_StaleJobDoesNothing ==
    [][\A j \in Jobs :
          Stale(j)
              => /\ pc'[j] \in {pc[j], "crashed"}
                 /\ import_jobs'[j] = import_jobs[j]
                 /\ fileExists'[j] = fileExists[j]
                 /\ obj'[j] = obj[j]
                 /\ pc'[j] # pc[j]
                       => UNCHANGED <<dicts, entry, import_jobs, fileExists, nextId>>]_vars

\* The handler invoked for the job that had ended DONE and the one invoked
\* for a job in ERROR have both stopped, and the store is as it was.
C31_Witness ==
    /\ pc[SeedJob] = "crashed" /\ Job(SeedJob).state = DONE
    /\ pc["j1"] = "crashed" /\ Job("j1").state = ERROR /\ Job("j1").error = "parse"
    /\ Len(dicts) = 1
    /\ ~fileExists["j1"]

-----------------------------------------------------------------------------
(* Properties of the output of the local executable *)

\* The lines of the output that are not blank.
NonBlank == SelectSeq(call.stdout, LAMBDA line : line.fmt # "blank")

\* The entries of the left and of the right sense of a well-formed line.
PairOf(line) ==
    << sense_entry_mappings[1][removeprefix(line.left)],
       sense_entry_mappings[2][removeprefix(line.right)] >>

\* The match type the interface defines for a predicate.
TypeOf(pred) ==
    CASE pred = "exactMatch" -> "exact"
      [] pred \in {"broadMatch", "broader"} -> "broader"
      [] pred \in {"narrowMatch", "narrower"} -> "narrower"
      [] pred = "relatedMatch" -> "related"

LinesOf(pair) == SelectSeq(NonBlank, LAMBDA line : PairOf(line) = pair)

TotalLinks(recs) ==
    LET RECURSIVE Sum(_)
        Sum(k) == IF k = 0 THEN 0 ELSE Len(recs[k].linking) + Sum(k - 1)
    IN  Sum(Len(recs))

WellFormedOutput ==
    /\ call.returncode = 0
    /\ call.stderr = ""
    /\ Range(NonBlank) \subseteq WellFormedLines

\* C32: for an output of well-formed match lines the result holds one record
\* for each distinct pair (entry of the left sense, entry of the right sense);
\* every link of a record has its senses in the record's entries; there are
\* as many links as lines that are not blank; and the links of a record are
\* those of the lines of its pair, in their order, each with the match type
\* of its predicate.
C32_GroupedByEntryPair ==
    (WellFormedOutput /\ ret.at \in {"result", "returned"})
        => LET recs == ret.sense_links
           IN  /\ ret.at = "returned" => ret.result = recs
               /\ \A j, k \in DOMAIN recs :
                     j # k => <<recs[j].source_entry, recs[j].target_entry>>
                                  # <<recs[k].source_entry, recs[k].target_entry>>
               /\ {<<r.source_entry, r.target_entry>> : r \in Range(recs)}
                     = {PairOf(line) : line \in Range(NonBlank)}
               /\ TotalLinks(recs) = Len(NonBlank)
               /\ \A r \in Range(recs) :
                     LET lines == LinesOf(<<r.source_entry, r.target_entry>>)
                     IN  /\ Len(r.linking) = Len(lines)
                         /\ \A k \in DOMAIN r.linking :
                               /\ r.linking[k].type = TypeOf(lines[k].pred)
                               /\ r.linking[k].source_sense = removeprefix(lines[k].left)
                               /\ r.linking[k].target_sense = removeprefix(lines[k].right)
                               /\ sense_entry_mappings[1][r.linking[k].source_sense]
                                     = r.source_entry
                               /\ sense_entry_mappings[2][r.linking[k].target_sense]
                                     = r.target_entry

\* Three lines, two of them of one pair of entries by different senses and
\* predicates, have given two records, the first with two links.
C32_Witness ==
    /\ ret.at = "returned"
    /\ call.stdout = <<MatchLine("s1", "broadMatch", "t1"),
                       MatchLine("s3", "exactMatch", "t2"),
                       MatchLine("s2", "exactMatch", "t1")>>
    /\ Len(ret.result) = 2
    /\ Len(ret.result[1].linking) = 2
    /\ ret.result[1].linking[1].type = "broader"

\* A line that is not blank and does not match the match-line format, or
\* names a predicate or a sense that is not known.
BadLine(line) ==
    \/ line.fmt \in {"text", "tabs"}
    \/ /\ line.fmt = "match"
       /\ \/ line.pred \notin {"exactMatch", "broadMatch", "broader",
                                "narrowMatch", "narrower", "relatedMatch"}
          \/ removeprefix(line.left) \notin DOMAIN sense_entry_mappings[1]
          \/ removeprefix(line.right) \notin DOMAIN sense_entry_mappings[2]

\* C33 (the local executable): a return code other than 0, a failure marker
\* in stderr, or an output line that does not match the match-line format or
\* names an unknown predicate or sense, makes the function raise, so that the
\* job ends FAILED, and no result is returned.
C33_BackendFailureFailsJob ==
    (\/ call.returncode # 0
     \/ call.stderr = "FAILED"
     \/ \E k \in DOMAIN call.stdout : BadLine(call.stdout[k]))
        => /\ ret.at # "returned"
           /\ ret.result = None

-----------------------------------------------------------------------------
(* Properties of the identifier transfer *)

\* The job has come back from _transfer_ids and has not yet touched the
\* entries of its target.
Transferred(j) == pc[j] = "delete_entries"

\* The entries of the new dictionary that carry an id of an old entry.
Inherited(j) == {i \in DOMAIN obj[j].entries : obj[j].entries[i]._id # NoId}

\* C34: after _transfer_ids no two entries of the new dictionary carry the
\* same inherited id, and every inherited id is the id of an entry of the old
\* target dictionary, with the lemma and the part of speech of the new entry.
C34_TransferInjective ==
    \A j \in Jobs :
        Transferred(j)
            => LET new == obj[j].entries
                   old == FindByDict(entry, Job(j).dict_id)
               IN  /\ \A i, k \in Inherited(j) : new[i]._id = new[k]._id => i = k
                   /\ \A i \in Inherited(j) :
                         \E m \in DOMAIN old :
                            /\ old[m]._id = new[i]._id
                            /\ old[m].lemma = new[i].lemma
                            /\ old[m].partOfSpeech = new[i].partOfSpeech

\* A file that repeats a pair has replaced one that repeats the same pair,
\* and its two entries have inherited the two ids.
C34_Witness ==
    /\ Transferred("j1")
    /\ Len(obj["j1"].entries) = 2
    /\ obj["j1"].entries[1].lemma = obj["j1"].entries[2].lemma
    /\ obj["j1"].entries[1].partOfSpeech = obj["j1"].entries[2].partOfSpeech
    /\ {obj["j1"].entries[i]._id : i \in 1..2} = {1, 2}

-----------------------------------------------------------------------------
(* Properties of the submission *)

\* C35: the job is stored before its id is put on the queue: every id on a
\* queue and every id handed to a handler has its job in the store, the
\* handler finds the job at its first read, and an import job is SCHEDULED
\* at that read.
C35_StoredBeforeQueued ==
    /\ \A q \in Queues : \A k \in DOMAIN queue[q] : InStore(queue[q][k])
    /\ \A p \in DOMAIN procs : InStore(procs[p].arg)
    /\ \A r \in Requests : call[r].put => InStore(r)
    /\ \A r \in ImportRequests : ret[r] \in {None, SCHEDULED}
    /\ \A r \in LinkRequests : ret[r] \in {None, "found"}

\* The handler of the second import job has read its job SCHEDULED after the
\* first import job has ended in ERROR, the linking handler has found its
\* job, and nothing is left on a queue.
C35_Witness ==
    /\ ret["j1"] = SCHEDULED /\ import_jobs["j1"].state = ERROR
    /\ ret["j2"] = SCHEDULED /\ import_jobs["j2"].state = SCHEDULED
    /\ import_jobs["j1"].kind = "api" /\ import_jobs["j2"].kind = "url"
    /\ ret["l1"] = "found"
    /\ \A q \in Queues : queue[q] = <<>>
    /\ Len(procs) = 3

-----------------------------------------------------------------------------
(* Properties of the mirroring *)

\* The dictionary records that mirror the remote dictionary.
Mirrors == MirrorsOf(RemoteDict, RemoteEndpoint)

\* C36: the store holds at most one dictionary record with the origin id and
\* origin endpoint of the remote dictionary, exactly one once a job has
\* returned from _get_entries, and the rewritten reference of every such job
\* is the id of that record.
C36_OneMirrorPerOrigin ==
    /\ Cardinality(Mirrors) <= 1
    /\ \A l \in MirrorJobs :
          ret[l].at = "returned"
              => /\ Cardinality(Mirrors) = 1
                 /\ \A i \in Mirrors : dicts[i]._id = ret[l].our_dict_id

\* No step of a job was taken while another job was inside _get_entries: the
\* jobs have run one after the other.
Sequential == \A l \in MirrorJobs : ~ret[l].overlapped

\* The entries of mirror dictionary d that have origin id o.
LocalEntries(d, o) == MirroredEntry(entry, o, d)

\* The mirror dictionary holds at most one entry of every origin id, and a
\* job that has returned has, for every origin id it asked for, the id of the
\* one local entry of that origin id.
OneLocalEntryEach(l) ==
    /\ \A o \in Range(RemoteEntries) :
          Cardinality(LocalEntries(ret[l].our_dict_id, o)) <= 1
    /\ ret[l].at = "returned"
          => /\ Len(ret[l].our_entry_ids) = Len(ret[l].origin_entry_ids)
             /\ \A k \in DOMAIN ret[l].origin_entry_ids :
                   \E i \in LocalEntries(ret[l].our_dict_id, ret[l].origin_entry_ids[k]) :
                      ret[l].our_entry_ids[k] = Str(entry[i]._id)

\* C37: when the jobs run one after the other, a job sends a request and
\* inserts an entry only for an origin entry that the mirror dictionary does
\* not hold yet; the mirror dictionary never holds two entries of one origin
\* id; and a job that has returned has, for every origin id it asked for, the
\* id of the one local entry of that origin id, reused or new.
C37_MirroringIdempotent ==
    [][Sequential'
          => \A l \in MirrorJobs :
                /\ (ret'[l].requests # ret[l].requests \/ ret'[l].inserted # ret[l].inserted)
                      => LocalEntries(ret[l].our_dict_id,
                                      ret[l].origin_entry_ids[ret[l].i]) = {}
                /\ OneLocalEntryEach(l)']_vars

\* Job l1 has mirrored o1 and returned; then job l2, asked for o2 and o1, has
\* requested o2 only and has returned the id of l1's entry for o1.
C37_Witness ==
    /\ Sequential
    /\ ret["l1"].at = "returned" /\ ret["l2"].at = "returned"
    /\ call["l1"].entries = <<"o1">> /\ call["l2"].entries = <<"o2", "o1">>
    /\ ret["l1"].requests = <<"o1">>
    /\ ret["l2"].requests = <<"o2">>
    /\ ret["l2"].our_entry_ids[2] = ret["l1"].our_entry_ids[1]
    /\ ret["l2"].our_dict_id = ret["l1"].our_dict_id

-----------------------------------------------------------------------------
(* Properties of the dictionary bookkeeping *)

\* The stored entries whose _dict_id is d.
EntriesOf(d) == {k \in DOMAIN entry : entry[k]._dict_id = d}

\* An element of _entries names the entry id: as the ObjectId that insert_many
\* returned or as the string that get_one_entry pushed.
NamesId(x, id) == ToString(x) \in {ToString(id), ToString(ToString(id))}

\* Every handler that was started has ended well: an import with the state
\* DONE, a mirror fetch with the return of the new source.
AllEndedWell ==
    /\ Quiet
    /\ \A j \in Jobs : pc[j] # "queued" => pc[j] = "done" /\ import_jobs[j].state = DONE
    /\ \A l \in MirrorJobs : ret[l].at \in {"queued", "returned"}

\* A dictionary record's count and list agree with the stored entries.
Booked(d) ==
    /\ d.n_entries = Cardinality(EntriesOf(d._id))
    /\ Len(d._entries) = Cardinality(EntriesOf(d._id))
    /\ \A k \in EntriesOf(d._id) :
          \E x \in DOMAIN d._entries : NamesId(d._entries[x], entry[k]._id)

\* C38: after any sequence of imports, replacements and mirror fetches that
\* ran one after the other and all ended well, every dictionary record with an
\* entry count has n_entries equal to the number of stored entries of its id
\* and _entries listing exactly their ids, and the dictionary of every import
\* job that ended DONE has at least one entry.
C38_Bookkeeping ==
    AllEndedWell
        => /\ \A i \in DOMAIN dicts :
                 "n_entries" \in DOMAIN dicts[i] => Booked(dicts[i])
           /\ \A j \in Jobs :
                 import_jobs[j].state = DONE => EntriesOf(TargetId(j)) # {}

-----------------------------------------------------------------------------
(* Properties of the conversion to origin ids *)

\* The stored origin-remapped view of job l, if one was produced.
OriginView(l) == LinkJob(l).origin_result

\* C39: the conversion to origin ids rewrites only the references of a side
\* that named a remote endpoint.  In the stored origin-remapped view the
\* source_entry (target_entry) of every record is the one the backend returned
\* when the source (target) named no remote endpoint; and when neither side
\* named one, no origin-remapped view is stored and the result endpoint serves
\* the backend's result as it was returned.
C39_RemapOnlyMirroredSides ==
    \A l \in LinkIds :
        Returned(l) =>
            /\ OriginView(l).kind = "list" =>
                  /\ Len(OriginView(l).items) = Len(lv[l].result)
                  /\ \A i \in DOMAIN OriginView(l).items :
                        /\ ~RemoteSource(l) =>
                              OriginView(l).items[i].source_entry = lv[l].result[i].source_entry
                        /\ ~RemoteTarget(l) =>
                              OriginView(l).items[i].target_entry = lv[l].result[i].target_entry
                        /\ OriginView(l).items[i].linking = lv[l].result[i].linking
            /\ (~RemoteSource(l) /\ ~RemoteTarget(l)) =>
                  /\ OriginView(l) = Null
                  /\ lv[l].exc = "" =>
                        /\ result(l).code = 200
                        /\ result(l).body = List(lv[l].result)

\* A completed job with a mirrored source and a local target: the view has
\* the origin id as source_entry and the backend's target_entry.
C39_Witness ==
    \E l \in LinkIds :
        /\ Returned(l) /\ LinkJob(l).state = COMPLETED
        /\ RemoteSource(l) /\ ~RemoteTarget(l)
        /\ OriginView(l).kind = "list" /\ OriginView(l).items # <<>>
        /\ OriginView(l).items[1].source_entry \in OriginIds
        /\ OriginView(l).items[1].source_entry # lv[l].result[1].source_entry
        /\ OriginView(l).items[1].target_entry = lv[l].result[1].target_entry

====
